---- MODULE Spec2Model ----
(***************************************************************************)
(* Model of the Polymarket/Kalshi arbitrage bot: the service loop of       *)
(* main.rs, the scans of bot.rs, the two executors and the position        *)
(* ledger.                                                                 *)
(*                                                                         *)
(* Numbers.  The program computes in f64.  The model computes in exact     *)
(* integers: a price is a number of cents (1.0 = 100), money is a number   *)
(* of dollars and a quantity a number of shares.  The quotes the model     *)
(* draws are chosen so that amount / price is a whole number of shares.    *)
(*                                                                         *)
(* Option<T> is a sequence of length 0 (None) or 1 (Some(x)).              *)
(***************************************************************************)
EXTENDS Integers, Sequences, FiniteSets, TLC

VARIABLES
    positions,            \* PositionTracker.positions: id -> Position
    gabagool_positions,   \* GabagoolExecutor.gabagool_positions: event id -> GabagoolPosition
    phase,                \* where the service loop of main.rs is
    cycles,               \* scan ticks taken so far
    cross_platform_opps,  \* main.rs: the cross-venue opportunities of the cycle
    gabagool_opps,        \* main.rs: the Gabagool opportunities of the cycle
    trades,               \* one execute_arbitrage call per cross-venue opportunity
    gtrades,              \* one execute_trade call per Gabagool opportunity
    numAdded,             \* history: number of add_position calls
    cancels,              \* history: number of cancel_order calls
    probe,                \* input and output of a function applied on its own
    fetched,              \* history: what the event fetches of the latest cycle returned
    scanning,             \* the price fetches of a scan followed fetch by fetch
    settlement_due,       \* settlement_interval has ticked and the tick is not yet served
    markets               \* the venues' markets: "open", or the outcome resolved to

vars == <<positions, gabagool_positions, phase, cycles, cross_platform_opps,
          gabagool_opps, trades, gtrades, numAdded, cancels, probe,
          fetched, scanning, settlement_due, markets>>

---------------------------------------------------------------------------
(* Bounds of the model *)

MaxCycles == 2
NumUuid == 2

(* Constants of the program *)

trade_amount == 100
min_profit_threshold == 2
similarity_threshold == 80
min_liquidity == 200

None == <<>>
Some(x) == <<x>>
IsSome(o) == Len(o) = 1
Unwrap(o) == o[1]

Min(a, b) == IF a <= b THEN a ELSE b

---------------------------------------------------------------------------
(* Events and quotes *)

\* What the venues list: p3 carries no resolution date, p2 resolves too soon,
\* k3 too late.
pm_events == <<"p1", "p2", "p3">>
kalshi_events == <<"k1", "k3">>

\* Event.resolution_date, as minutes from now (None: no date).
resolution_date(e) ==
    CASE e = "p3" -> None
      [] e = "k3" -> Some(600)
      [] e = "p2" -> Some(4)
      [] OTHER -> Some(15)

\* Event.category.
category(e) == IF e = "p2" THEN None ELSE Some("crypto")

\* Whether title or description holds one of the keywords of an allowed category.
keyword_hit(e) == e = "p2"

MarketPrices(yes, no, liquidity) == [yes |-> yes, no |-> no, liquidity |-> liquidity]

\* The quotes the venues answer with in the service loop; the last of each
\* is below the liquidity floor.
PmQuotes ==
    { MarketPrices(40, 50, 300), MarketPrices(50, 40, 300), MarketPrices(40, 50, 100) }

KalshiQuotes == { MarketPrices(40, 50, 300), MarketPrices(40, 50, 100) }

QuotesOf(e) == IF e \in {"p1", "p2", "p3", "p4"} THEN PmQuotes ELSE KalshiQuotes

\* The ways to answer the price fetches of the events in es.
QuoteMaps(es) == { q \in [es -> PmQuotes \cup KalshiQuotes] : \A e \in es : q[e] \in QuotesOf(e) }

\* Text similarity (percent) of the titles of a Polymarket and a Kalshi event.
Similarity ==
    [ x \in {"p1", "p2", "p3"} \X {"k1", "k3"} |->
        CASE x = <<"p1", "k1">> -> 90
          [] x = <<"p2", "k1">> -> 82
          [] x = <<"p3", "k3">> -> 95
          [] OTHER -> 40 ]

---------------------------------------------------------------------------
(* Arbitrage Detector (arbitrage_detector.rs is not among the sources) *)

NoOpportunity == [found |-> FALSE]

ArbitrageOpportunity(strategy, pm_side, pm_price, k_side, k_price) ==
    [ found |-> TRUE,
      strategy |-> strategy,
      polymarket_action |-> <<"BUY", pm_side, pm_price>>,
      kalshi_action |-> <<"BUY", k_side, k_price>>,
      net_profit |-> 100 - (pm_price + k_price) ]

\* A detector whose comparison admits equality.
check_arbitrage_nonstrict(pm_prices, kalshi_prices, threshold) ==
    LET a == pm_prices.yes + kalshi_prices.no
        b == pm_prices.no + kalshi_prices.yes
    IN  IF a <= 100 - threshold /\ a <= b
        THEN ArbitrageOpportunity("PM_YES_KALSHI_NO", "YES", pm_prices.yes, "NO", kalshi_prices.no)
        ELSE IF b <= 100 - threshold
        THEN ArbitrageOpportunity("PM_NO_KALSHI_YES", "NO", pm_prices.no, "YES", kalshi_prices.yes)
        ELSE NoOpportunity

\* yes_A + no_B < 1 - threshold or no_A + yes_B < 1 - threshold; of two
\* qualifying combinations the one with the larger net profit.
check_arbitrage(pm_prices, kalshi_prices, threshold) ==
    LET a == pm_prices.yes + kalshi_prices.no
        b == pm_prices.no + kalshi_prices.yes
        a_ok == a < 100 - threshold
        b_ok == b < 100 - threshold
    IN  IF a_ok /\ (~b_ok \/ a <= b)
        THEN ArbitrageOpportunity("PM_YES_KALSHI_NO", "YES", pm_prices.yes, "NO", kalshi_prices.no)
        ELSE IF b_ok
        THEN ArbitrageOpportunity("PM_NO_KALSHI_YES", "NO", pm_prices.no, "YES", kalshi_prices.yes)
        ELSE NoOpportunity

---------------------------------------------------------------------------
(* Event Matcher (event_matcher.rs is not among the sources) *)

\* The candidate pairs <<i, j>> (positions in the two lists) at or above the threshold.
Candidates(pm, kalshi, sim, threshold) ==
    { c \in (1..Len(pm)) \X (1..Len(kalshi)) : sim[pm[c[1]], kalshi[c[2]]] >= threshold }

\* The best candidate: highest score, then insertion order.
Best(cands, pm, kalshi, sim) ==
    CHOOSE c \in cands :
        \A d \in cands :
            \/ sim[pm[c[1]], kalshi[c[2]]] > sim[pm[d[1]], kalshi[d[2]]]
            \/ /\ sim[pm[c[1]], kalshi[c[2]]] = sim[pm[d[1]], kalshi[d[2]]]
               /\ (c[1] < d[1] \/ (c[1] = d[1] /\ c[2] <= d[2]))

RECURSIVE GreedyMatch(_, _, _, _)
GreedyMatch(cands, pm, kalshi, sim) ==
    IF cands = {} THEN <<>>
    ELSE LET c == Best(cands, pm, kalshi, sim)
             rest == { d \in cands : d[1] # c[1] /\ d[2] # c[2] }
         IN  <<[pm_event |-> pm[c[1]], kalshi_event |-> kalshi[c[2]],
                score |-> sim[pm[c[1]], kalshi[c[2]]]]>>
             \o GreedyMatch(rest, pm, kalshi, sim)

\* A matcher that lets an event pair more than once.
RECURSIVE AllPairsByScore(_, _, _, _)
AllPairsByScore(cands, pm, kalshi, sim) ==
    IF cands = {} THEN <<>>
    ELSE LET c == Best(cands, pm, kalshi, sim)
         IN  <<[pm_event |-> pm[c[1]], kalshi_event |-> kalshi[c[2]],
                score |-> sim[pm[c[1]], kalshi[c[2]]]]>>
             \o AllPairsByScore(cands \ {c}, pm, kalshi, sim)

find_matches_no_consume(pm, kalshi, sim, threshold) ==
    AllPairsByScore(Candidates(pm, kalshi, sim, threshold), pm, kalshi, sim)

\* One-to-one, highest score first, output by descending score.
find_matches(pm, kalshi, sim, threshold) ==
    GreedyMatch(Candidates(pm, kalshi, sim, threshold), pm, kalshi, sim)

---------------------------------------------------------------------------
(* Gabagool Detector (gabagool_detector.rs is not among the sources) *)

\* Pair cost below 1 on the held position: (yes_cost + no_cost) / min_qty < 1.
ProfitLocked(yes_qty, no_qty, yes_cost, no_cost) ==
    LET min_qty == Min(yes_qty, no_qty)
    IN  min_qty > 0 /\ yes_cost + no_cost < min_qty

check_opportunity(event, prices, yes_qty, no_qty, yes_cost, no_cost, threshold) ==
    LET cheap_side == IF prices.yes <= prices.no THEN "YES" ELSE "NO"
        cheap_price == Min(prices.yes, prices.no)
        total_cost == prices.yes + prices.no
        locked == ProfitLocked(yes_qty, no_qty, yes_cost, no_cost)
    IN  IF cheap_price < 100 - threshold /\ (total_cost < 100 - threshold \/ locked)
        THEN [ found |-> TRUE, event |-> event, cheap_side |-> cheap_side,
               cheap_price |-> cheap_price, total_cost |-> total_cost,
               net_profit |-> 100 - total_cost, profit_locked |-> locked ]
        ELSE NoOpportunity

---------------------------------------------------------------------------
(* bot.rs: the filters and the two scans *)

max_hours_until_resolution == 1
min_minutes_until_resolution == 5

Range(f) == { f[i] : i \in DOMAIN f }

\* A window that is open at both ends.
is_within_timeframe_strict(date) ==
    IF IsSome(date)
    THEN /\ Unwrap(date) > min_minutes_until_resolution
         /\ Unwrap(date) < 60 * max_hours_until_resolution
    ELSE FALSE

is_within_timeframe(date) ==
    IF IsSome(date)
    THEN /\ Unwrap(date) >= min_minutes_until_resolution
         /\ Unwrap(date) <= 60 * max_hours_until_resolution
    ELSE FALSE

\* filters.categories is ["crypto"] (main.rs): the category holds it, or
\* title or description holds a crypto keyword.
matches_category_of(cat, hit) ==
    \/ (IsSome(cat) /\ Unwrap(cat) = "crypto")
    \/ hit

matches_category(e) == matches_category_of(category(e), keyword_hit(e))

\* filter_events over events whose fields are given by attr.
filter_events_with(events, attr) ==
    SelectSeq(events, LAMBDA e : /\ matches_category_of(attr[e].category, attr[e].hit)
                                 /\ is_within_timeframe(attr[e].resolution_date))

filter_events(events) ==
    filter_events_with(events, [ e \in Range(events) |->
                                   [ category |-> category(e), hit |-> keyword_hit(e),
                                     resolution_date |-> resolution_date(e) ] ])

\* A floor that turns away a quote of exactly min_liquidity.
PairOpportunityAbove(floor, m, quote) ==
    LET pm_prices == quote[m.pm_event]
        kalshi_prices == quote[m.kalshi_event]
    IN  IF pm_prices.liquidity <= floor \/ kalshi_prices.liquidity <= floor
        THEN NoOpportunity
        ELSE check_arbitrage(pm_prices, kalshi_prices, min_profit_threshold)

\* The opportunity of one matched pair, or none: the liquidity floor
\* (filters.min_liquidity), then the detector.
PairOpportunityAt(floor, m, quote) ==
    LET pm_prices == quote[m.pm_event]
        kalshi_prices == quote[m.kalshi_event]
    IN  IF pm_prices.liquidity < floor \/ kalshi_prices.liquidity < floor
        THEN NoOpportunity
        ELSE check_arbitrage(pm_prices, kalshi_prices, min_profit_threshold)

PairOpportunity(m, quote) == PairOpportunityAt(min_liquidity, m, quote)

RECURSIVE CollectCrossAt(_, _, _)
CollectCrossAt(floor, matches, quote) ==
    IF matches = <<>> THEN <<>>
    ELSE LET m == Head(matches)
             opp == PairOpportunityAt(floor, m, quote)
         IN  (IF opp.found
              THEN <<[pm_event |-> m.pm_event, kalshi_event |-> m.kalshi_event,
                      opportunity |-> opp]>>
              ELSE <<>>)
             \o CollectCrossAt(floor, Tail(matches), quote)

CollectCross(matches, quote) == CollectCrossAt(min_liquidity, matches, quote)

\* quote[e]: what fetch_prices answers for event e in this scan; floor is
\* filters.min_liquidity.
scan_for_opportunities_at(floor, pm, kalshi, sim, quote) ==
    LET pm_filtered == filter_events(pm)
        kalshi_filtered == filter_events(kalshi)
    IN  IF pm_filtered = <<>> \/ kalshi_filtered = <<>>
        THEN <<>>
        ELSE CollectCrossAt(floor,
                            find_matches(pm_filtered, kalshi_filtered, sim, similarity_threshold),
                            quote)

\* The scan of the bot main builds: min_liquidity 200.
scan_for_opportunities(pm, kalshi, sim, quote) ==
    scan_for_opportunities_at(min_liquidity, pm, kalshi, sim, quote)

\* GabagoolExecutor::get_position_balance: (yes_qty, yes_cost, no_qty, no_cost).
get_position_balance(gpos, event_id) ==
    IF event_id \in DOMAIN gpos
    THEN <<gpos[event_id].yes_qty, gpos[event_id].yes_cost,
           gpos[event_id].no_qty, gpos[event_id].no_cost>>
    ELSE <<0, 0, 0, 0>>

\* The detector called with the tuple in its own order.
GabagoolCheckSwapped(event, prices, bal) ==
    check_opportunity(event, prices, bal[1], bal[2], bal[3], bal[4], min_profit_threshold)

\* bal is (yes_qty, yes_cost, no_qty, no_cost); the detector takes the
\* quantities first, then the costs.
GabagoolCheck(event, prices, bal) ==
    check_opportunity(event, prices, bal[1], bal[3], bal[2], bal[4], min_profit_threshold)

\* The opportunity of one filtered event, or none: the liquidity floor, then
\* the detector with the held balance.
EventOpportunityAt(floor, e, quote, gpos) ==
    IF quote[e].liquidity < floor
    THEN NoOpportunity
    ELSE GabagoolCheck(e, quote[e], get_position_balance(gpos, e))

RECURSIVE CollectGabagoolAt(_, _, _, _)
CollectGabagoolAt(floor, events, quote, gpos) ==
    IF events = <<>> THEN <<>>
    ELSE LET opp == EventOpportunityAt(floor, Head(events), quote, gpos)
         IN  (IF opp.found THEN <<opp>> ELSE <<>>)
             \o CollectGabagoolAt(floor, Tail(events), quote, gpos)

CollectGabagool(events, quote, gpos) == CollectGabagoolAt(min_liquidity, events, quote, gpos)

scan_gabagool_opportunities_at(floor, pm, quote, gpos) ==
    CollectGabagoolAt(floor, filter_events(pm), quote, gpos)

\* The scan of the bot main builds: min_liquidity 200.
scan_gabagool_opportunities(pm, quote, gpos) ==
    scan_gabagool_opportunities_at(min_liquidity, pm, quote, gpos)

---------------------------------------------------------------------------
(* position_tracker.rs: the ledger *)

Uuids == 1..NumUuid

\* Position::new.  uuid is the 8-character prefix of a random UUID; the id
\* is "{platform}_{prefix}".  created_at is not modelled.
Position_new(platform, event_id, outcome, amount, cost, price, order_id, uuid) ==
    [ id |-> <<platform, uuid>>,
      platform |-> platform,
      event_id |-> event_id,
      outcome |-> outcome,
      amount |-> amount,
      cost |-> cost,
      price |-> price,
      order_id |-> order_id,
      status |-> "Open",
      settled_at |-> None,
      payout |-> None,
      profit |-> None ]

\* A profit read off the payout.
profit_from_payout(position) ==
    (IF IsSome(position.payout) THEN Unwrap(position.payout) ELSE 0) - position.cost

calculate_profit_if_won(position) == position.amount * 1 - position.cost

calculate_profit_if_lost(position) == 0 - position.cost

\* HashMap::insert under the position's id.
add_position(tracker, position) ==
    [ i \in DOMAIN tracker \cup {position.id} |->
        IF i = position.id THEN position ELSE tracker[i] ]

get_all_positions(tracker) == { tracker[i] : i \in DOMAIN tracker }

get_open_positions(tracker) == { q \in get_all_positions(tracker) : q.status = "Open" }

\* A settlement that adds the profit to the one already stored.
SettledPositionAccumulating(position, won, payout) ==
    LET marked == [ position EXCEPT !.status = IF won THEN "Won" ELSE "Lost",
                                    !.settled_at = Some("now"),
                                    !.payout = payout ]
        profit == IF won THEN calculate_profit_if_won(marked)
                  ELSE calculate_profit_if_lost(marked)
    IN  [ marked EXCEPT !.profit =
            Some((IF IsSome(position.profit) THEN Unwrap(position.profit) ELSE 0) + profit) ]

\* The position as update_position_settlement leaves it: status, time and
\* payout first, then the profit of the position so marked.  The time of
\* settlement is not modelled.
SettledPosition(position, won, payout) ==
    LET marked == [ position EXCEPT !.status = IF won THEN "Won" ELSE "Lost",
                                    !.settled_at = Some("now"),
                                    !.payout = payout ]
        profit == IF won THEN calculate_profit_if_won(marked)
                  ELSE calculate_profit_if_lost(marked)
    IN  [ marked EXCEPT !.profit = Some(profit) ]

update_position_settlement(tracker, position_id, won, payout) ==
    IF position_id \in DOMAIN tracker
    THEN [ tracker EXCEPT ![position_id] = SettledPosition(tracker[position_id], won, payout) ]
    ELSE tracker

\* The Option<f64> update_position_settlement returns: the profit it stored.
update_position_settlement_returns(tracker, position_id, won, payout) ==
    IF position_id \in DOMAIN tracker
    THEN SettledPosition(tracker[position_id], won, payout).profit
    ELSE None

\* add_position for each Position of ps, in order.
AddAll(tracker, ps) ==
    IF Len(ps) = 0 THEN tracker
    ELSE IF Len(ps) = 1 THEN add_position(tracker, ps[1])
    ELSE add_position(add_position(tracker, ps[1]), ps[2])

---------------------------------------------------------------------------
(* The venues' place_order, as the executors see it: Result<Option<String>> *)

Ok(v) == [ok |-> TRUE, val |-> v, err |-> ""]
Err(e) == [ok |-> FALSE, val |-> None, err |-> e]

\* PolymarketClient::place_order: the transaction hash of its Ok(Some(..)) arm,
\* or an error; its Ok(None) arm is turned into an error.  The executors are
\* modelled against these arms, whatever the signing layer underneath returns.
PmPlaceOrderResults == { Ok(Some("pm_tx")), Err("pm_order_error") }

\* KalshiClient::place_order: the order id of the response, none when the
\* response carries no id, or an error.
KalshiPlaceOrderResults == { Ok(Some("kalshi_order")), Ok(None), Err("kalshi_order_error") }

PlaceOrderResults(venue) ==
    IF venue = "pm" THEN PmPlaceOrderResults ELSE KalshiPlaceOrderResults

---------------------------------------------------------------------------
(* trade_executor.rs *)

\* The value the arm `Ok(order_id) => order_id` binds, as the String the
\* executor wraps and logs: the id, empty when place_order gave none.
BoundOrderId(payload) == IF IsSome(payload) THEN Unwrap(payload) ELSE ""

\* A leg that hands on what place_order gave, unwrapped.
LegPassThrough(po) == IF po.ok THEN Ok(po.val) ELSE Err(po.err)

\* execute_polymarket_trade and execute_kalshi_trade: Ok(Some(order_id)) or the error.
execute_leg(po) == IF po.ok THEN Ok(Some(BoundOrderId(po.val))) ELSE Err(po.err)

VenueName(venue) == IF venue = "pm" THEN "Polymarket" ELSE "Kalshi"

\* The errors vector of the failure branch, joined with "; " in this order.
ErrorList(pm_result, kalshi_result) ==
    (IF pm_result.ok THEN <<>> ELSE <<[venue |-> "Polymarket", text |-> pm_result.err]>>)
    \o (IF kalshi_result.ok THEN <<>> ELSE <<[venue |-> "Kalshi", text |-> kalshi_result.err]>>)

\* A TradeResult that counts one completed leg as success.
TradeResultAnyLeg(pm_result, kalshi_result) ==
    [ success |-> pm_result.ok \/ kalshi_result.ok,
      polymarket_order_id |-> pm_result.val,
      kalshi_order_id |-> kalshi_result.val,
      error |-> IF pm_result.ok /\ kalshi_result.ok THEN None
                ELSE Some(ErrorList(pm_result, kalshi_result)) ]

\* The TradeResult of execute_arbitrage from the two joined leg results.
TradeResult(pm_result, kalshi_result) ==
    IF pm_result.ok /\ kalshi_result.ok
    THEN [ success |-> TRUE,
           polymarket_order_id |-> pm_result.val,
           kalshi_order_id |-> kalshi_result.val,
           error |-> None ]
    ELSE [ success |-> FALSE,
           polymarket_order_id |-> IF pm_result.ok THEN pm_result.val ELSE None,
           kalshi_order_id |-> IF kalshi_result.ok THEN kalshi_result.val ELSE None,
           error |-> Some(ErrorList(pm_result, kalshi_result)) ]

\* main.rs builds both executors with the shared tracker.
position_tracker_configured == TRUE

\* The Positions execute_arbitrage adds, in order: both on full success,
\* none otherwise.  amount is amount / price, cost is amount * price.
ArbitragePositions(o, pm_result, kalshi_result, u) ==
    IF pm_result.ok /\ kalshi_result.ok /\ position_tracker_configured
    THEN << Position_new("polymarket", o.pm_event, o.opportunity.polymarket_action[2],
                (trade_amount * 100) \div o.opportunity.polymarket_action[3],
                (trade_amount * o.opportunity.polymarket_action[3]) \div 100,
                o.opportunity.polymarket_action[3], pm_result.val, u[1]),
            Position_new("kalshi", o.kalshi_event, o.opportunity.kalshi_action[2],
                (trade_amount * 100) \div o.opportunity.kalshi_action[3],
                (trade_amount * o.opportunity.kalshi_action[3]) \div 100,
                o.opportunity.kalshi_action[3], kalshi_result.val, u[2]) >>
    ELSE <<>>

\* An executor that cancels the surviving order of a partial failure.
UnwindSurvivor(pm_result, kalshi_result) ==
    IF pm_result.ok # kalshi_result.ok THEN 1 ELSE 0

\* The cancel_order calls execute_arbitrage makes once the legs are joined.
UnwindCalls(pm_result, kalshi_result) == 0

\* Legs issued in sequence: Kalshi only after Polymarket succeeded.
LegIssuableInTurn(tr, venue) ==
    /\ tr[venue].st = "pending"
    /\ venue = "kalshi" => (tr.pm.st = "done" /\ tr.pm.res.ok)

\* tokio::join!: each leg is polled, whatever the state of the other.
LegIssuable(tr, venue) == tr[venue].st = "pending"

\* tokio::join! returns once both futures have completed.
Joined(tr) == tr.pm.st = "done" /\ tr.kalshi.st = "done"

---------------------------------------------------------------------------
(* gabagool_executor.rs *)

GabagoolPosition(yes_qty, yes_cost, no_qty, no_cost) ==
    [yes_qty |-> yes_qty, yes_cost |-> yes_cost, no_qty |-> no_qty, no_cost |-> no_cost]

\* An update that writes the bought side afresh instead of adding to it.
update_gabagool_position_afresh(gpos, opp, amount) ==
    LET shares == (amount * 100) \div opp.cheap_price
        old == IF opp.event \in DOMAIN gpos THEN gpos[opp.event]
               ELSE GabagoolPosition(0, 0, 0, 0)
        new == IF opp.cheap_side = "YES"
               THEN [old EXCEPT !.yes_qty = shares, !.yes_cost = amount]
               ELSE [old EXCEPT !.no_qty = shares, !.no_cost = amount]
    IN  [ e \in DOMAIN gpos \cup {opp.event} |-> IF e = opp.event THEN new ELSE gpos[e] ]

\* entry(event).or_insert_with(zeros), then the bought side grows by shares and amount.
update_gabagool_position(gpos, opp, amount) ==
    LET shares == (amount * 100) \div opp.cheap_price
        old == IF opp.event \in DOMAIN gpos THEN gpos[opp.event]
               ELSE GabagoolPosition(0, 0, 0, 0)
        new == IF opp.cheap_side = "YES"
               THEN [old EXCEPT !.yes_qty = @ + shares, !.yes_cost = @ + amount]
               ELSE [old EXCEPT !.no_qty = @ + shares, !.no_cost = @ + amount]
    IN  [ e \in DOMAIN gpos \cup {opp.event} |-> IF e = opp.event THEN new ELSE gpos[e] ]

\* The Position execute_trade adds after a place_order that returned Ok(order_id).
GabagoolPositions(opp, amount, order_id, uuid) ==
    IF position_tracker_configured
    THEN <<Position_new("polymarket", opp.event, opp.cheap_side,
               (amount * 100) \div opp.cheap_price, amount, opp.cheap_price, order_id, uuid)>>
    ELSE <<>>

---------------------------------------------------------------------------
(* The service loop of main.rs *)

Pending == Err("pending")

\* One leg of execute_arbitrage: po is what place_order answered, res what
\* the leg returned.
NewLeg == [st |-> "pending", po |-> Pending, res |-> Pending]

NewTrade ==
    [ pm |-> NewLeg,
      kalshi |-> NewLeg,
      issued |-> [pm |-> 0, kalshi |-> 0],
      result |-> None ]

NoProbe == [kind |-> "none"]

NoScanning == [legs |-> <<>>, detected |-> {}]

\* No market the bot trades in is resolved yet.
NoneResolved == [e \in {"p1", "p4", "k1", "k4"} |-> "open"]

\* The state after construction, the probe apart.
LoopInit ==
    /\ positions = <<>>
    /\ gabagool_positions = <<>>
    /\ phase = "idle"
    /\ cycles = 0
    /\ cross_platform_opps = <<>>
    /\ gabagool_opps = <<>>
    /\ trades = <<>>
    /\ gtrades = <<>>
    /\ numAdded = 0
    /\ cancels = 0
    /\ fetched = None
    /\ scanning = NoScanning
    /\ settlement_due = FALSE
    /\ markets = NoneResolved

Init == LoopInit /\ probe = NoProbe

\* A scan that fetches the prices of every filtered event before it matches.
CrossLegsUnmatched(pm, kalshi, sim) ==
    Range(filter_events(pm)) \cup Range(filter_events(kalshi))

\* The events whose prices the cross-venue scan fetches: none when a
\* filtered set is empty, else the legs of the matched pairs.
CrossLegs(pm, kalshi, sim) ==
    LET pm_filtered == filter_events(pm)
        kalshi_filtered == filter_events(kalshi)
        ms == find_matches(pm_filtered, kalshi_filtered, sim, similarity_threshold)
    IN  IF pm_filtered = <<>> \/ kalshi_filtered = <<>>
        THEN {}
        ELSE { ms[i].pm_event : i \in DOMAIN ms } \cup { ms[i].kalshi_event : i \in DOMAIN ms }

\* The events whose prices the Gabagool scan fetches: the filtered
\* Polymarket events.
GabagoolLegs(pm) == Range(filter_events(pm))

\* A fetch failure that empties both lists.
FetchedEventsAllOrNothing(pm_result, kalshi_result) ==
    IF pm_result.ok /\ kalshi_result.ok
    THEN [pm |-> pm_result.val, kalshi |-> kalshi_result.val]
    ELSE [pm |-> <<>>, kalshi |-> <<>>]

\* unwrap_or_default on each fetch_events result: the list, or the empty
\* list for the venue whose fetch failed.
FetchedEvents(pm_result, kalshi_result) ==
    [ pm |-> IF pm_result.ok THEN pm_result.val ELSE <<>>,
      kalshi |-> IF kalshi_result.ok THEN kalshi_result.val ELSE <<>> ]

\* A dispatch whose second test is an else-branch of the first.
GabagoolDispatchUnlessCross(cross, gab) ==
    IF cross # <<>> THEN <<>> ELSE [j \in 1..Len(gab) |-> "pending"]

\* One execute_arbitrage future for each cross-venue opportunity.
CrossDispatch(cross) == [i \in 1..Len(cross) |-> NewTrade]

\* One execute_trade future for each Gabagool opportunity, whatever the
\* cross-venue scan found.
GabagoolDispatch(cross, gab) == [j \in 1..Len(gab) |-> "pending"]

\* A loop that takes a tick whatever the arm before it is doing.
ScanDueAnyTime(ph) == TRUE

\* select! is polled again only when the body of the arm it last took has
\* run to its end.
ScanDue(ph) == ph = "idle"

\* The scan arm of select!, with what the two fetch_events calls returned:
\* both scans joined, then the dispatch of what they found.
ScanArm(pm_result, kalshi_result, max_cycles) ==
    /\ ScanDue(phase)
    /\ cycles < max_cycles
    /\ LET events == FetchedEvents(pm_result, kalshi_result)
           cross_legs == CrossLegs(events.pm, events.kalshi, Similarity)
           gabagool_legs == GabagoolLegs(events.pm)
       IN  /\ fetched' = Some([pm |-> pm_result, kalshi |-> kalshi_result, scanned |-> events,
                                priced |-> [cross |-> cross_legs, gabagool |-> gabagool_legs]])
           /\ \E qc \in QuoteMaps(cross_legs), qg \in QuoteMaps(gabagool_legs) :
                 LET cross == scan_for_opportunities(events.pm, events.kalshi, Similarity, qc)
                     gab == scan_gabagool_opportunities(events.pm, qg, gabagool_positions)
                 IN  /\ cross_platform_opps' = cross
                     /\ gabagool_opps' = gab
                     /\ trades' = CrossDispatch(cross)
                     /\ gtrades' = GabagoolDispatch(cross, gab)
                     /\ phase' = IF cross # <<>> THEN "cross"
                                 ELSE IF gab # <<>> THEN "gabagool" ELSE "idle"
    /\ cycles' = cycles + 1
    /\ UNCHANGED <<positions, gabagool_positions, numAdded, cancels, probe,
                   scanning, settlement_due, markets>>

\* KalshiClient::fetch_events failed.
KalshiFetchError == Err("kalshi_fetch_error")

ScanTick == ScanArm(Ok(pm_events), Ok(kalshi_events), MaxCycles)

\* A leg of execute_arbitrage reaches its place_order call.
IssueLeg(i, venue) ==
    /\ phase = "cross"
    /\ trades[i].result = None
    /\ LegIssuable(trades[i], venue)
    /\ trades' = [trades EXCEPT ![i][venue].st = "inflight",
                                ![i].issued[venue] = @ + 1]
    /\ UNCHANGED <<positions, gabagool_positions, phase, cycles, cross_platform_opps,
                   gabagool_opps, gtrades, numAdded, cancels, probe,
                   fetched, scanning, settlement_due, markets>>

\* The place_order of a leg returns one of results.
CompleteLegWith(i, venue, results) ==
    /\ phase = "cross"
    /\ trades[i][venue].st = "inflight"
    /\ \E po \in results :
          trades' = [trades EXCEPT ![i][venue] =
                        [st |-> "done", po |-> po, res |-> execute_leg(po)]]
    /\ UNCHANGED <<positions, gabagool_positions, phase, cycles, cross_platform_opps,
                   gabagool_opps, gtrades, numAdded, cancels, probe,
                   fetched, scanning, settlement_due, markets>>

\* The venue answers the place_order of a leg.
CompleteLeg(i, venue) == CompleteLegWith(i, venue, PlaceOrderResults(venue))

\* execute_arbitrage after the join: the ledger entries and the TradeResult.
Evaluate(i) ==
    /\ phase = "cross"
    /\ trades[i].result = None
    /\ Joined(trades[i])
    /\ \E u \in Uuids \X Uuids :
          LET ps == ArbitragePositions(cross_platform_opps[i], trades[i].pm.res,
                                       trades[i].kalshi.res, u)
          IN  /\ positions' = AddAll(positions, ps)
              /\ numAdded' = numAdded + Len(ps)
    /\ cancels' = cancels + UnwindCalls(trades[i].pm.res, trades[i].kalshi.res)
    /\ trades' = [trades EXCEPT ![i].result =
                     Some(TradeResult(trades[i].pm.res, trades[i].kalshi.res))]
    /\ UNCHANGED <<gabagool_positions, phase, cycles, cross_platform_opps,
                   gabagool_opps, gtrades, probe,
                   fetched, scanning, settlement_due, markets>>

\* join_all over the cross-venue trades has returned and the results are logged.
CrossJoined ==
    /\ phase = "cross"
    /\ \A i \in DOMAIN trades : trades[i].result # None
    /\ trades' = <<>>
    /\ cross_platform_opps' = <<>>
    /\ phase' = IF gabagool_opps # <<>> THEN "gabagool" ELSE "idle"
    /\ UNCHANGED <<positions, gabagool_positions, cycles, gabagool_opps, gtrades,
                   numAdded, cancels, probe,
                   fetched, scanning, settlement_due, markets>>

\* execute_trade reaches its place_order call.
GabagoolIssue(j) ==
    /\ phase = "gabagool"
    /\ gtrades[j] = "pending"
    /\ gtrades' = [gtrades EXCEPT ![j] = "inflight"]
    /\ UNCHANGED <<positions, gabagool_positions, phase, cycles, cross_platform_opps,
                   gabagool_opps, trades, numAdded, cancels, probe,
                   fetched, scanning, settlement_due, markets>>

\* An execute_trade that takes the event's entry before it places the order.
hedge_entry_taken_first(gpos, opp) ==
    [ e \in DOMAIN gpos \cup {opp.event} |->
        IF e \in DOMAIN gpos THEN gpos[e] ELSE GabagoolPosition(0, 0, 0, 0) ]

\* The hedge map when place_order(..).await? returns the error: the lock
\* on gabagool_positions has not been taken yet.
hedge_after_failed_order(gpos, opp) == gpos

\* place_order failed: execute_trade returns the error.
GabagoolFail(j) ==
    /\ phase = "gabagool"
    /\ gtrades[j] = "inflight"
    /\ \E po \in PmPlaceOrderResults : ~po.ok
    /\ gtrades' = [gtrades EXCEPT ![j] = "err"]
    /\ gabagool_positions' = hedge_after_failed_order(gabagool_positions, gabagool_opps[j])
    /\ UNCHANGED <<positions, phase, cycles, cross_platform_opps,
                   gabagool_opps, trades, numAdded, cancels, probe,
                   fetched, scanning, settlement_due, markets>>

\* place_order returned Ok, one of results: the hedge position, then the
\* ledger.
GabagoolCompleteWith(j, results) ==
    /\ phase = "gabagool"
    /\ gtrades[j] = "inflight"
    /\ \E po \in results, u \in Uuids :
          LET ps == GabagoolPositions(gabagool_opps[j], trade_amount, po.val, u)
          IN  /\ po.ok
              /\ positions' = AddAll(positions, ps)
              /\ numAdded' = numAdded + Len(ps)
    /\ gabagool_positions' =
          update_gabagool_position(gabagool_positions, gabagool_opps[j], trade_amount)
    /\ gtrades' = [gtrades EXCEPT ![j] = "ok"]
    /\ UNCHANGED <<phase, cycles, cross_platform_opps, gabagool_opps, trades,
                   cancels, probe,
                   fetched, scanning, settlement_due, markets>>

GabagoolComplete(j) == GabagoolCompleteWith(j, PmPlaceOrderResults)

\* join_all over the Gabagool trades has returned and the results are logged.
GabagoolJoined ==
    /\ phase = "gabagool"
    /\ \A j \in DOMAIN gtrades : gtrades[j] \in {"ok", "err"}
    /\ gtrades' = <<>>
    /\ gabagool_opps' = <<>>
    /\ phase' = "idle"
    /\ UNCHANGED <<positions, gabagool_positions, cycles, cross_platform_opps, trades,
                   numAdded, cancels, probe,
                   fetched, scanning, settlement_due, markets>>

\* The first MaxCycles scan ticks.  The scan period is 60 s and a traded
\* market is at least 5 minutes from resolution, so no position of these
\* cycles is resolved within them: the settlement arm finds nothing to settle
\* and is left out.
Next ==
    \/ ScanTick
    \/ \E i \in DOMAIN trades, venue \in {"pm", "kalshi"} : IssueLeg(i, venue)
    \/ \E i \in DOMAIN trades, venue \in {"pm", "kalshi"} : CompleteLeg(i, venue)
    \/ \E i \in DOMAIN trades : Evaluate(i)
    \/ CrossJoined
    \/ \E j \in DOMAIN gtrades : GabagoolIssue(j)
    \/ \E j \in DOMAIN gtrades : GabagoolFail(j)
    \/ \E j \in DOMAIN gtrades : GabagoolComplete(j)
    \/ GabagoolJoined

Spec == Init /\ [][Next]_vars

---------------------------------------------------------------------------
(* The PositionTracker on its own, under any sequence of its operations *)

MaxAdds == 3

TrackerIds == {"polymarket", "kalshi"} \X Uuids

\* add_position of a fresh Position::new.
TrackerAdd ==
    /\ numAdded < MaxAdds
    /\ \E platform \in {"polymarket", "kalshi"}, u \in Uuids :
          positions' = add_position(positions,
                          Position_new(platform, IF platform = "polymarket" THEN "p1" ELSE "k1",
                                       IF platform = "polymarket" THEN "YES" ELSE "NO",
                                       250, 100, 40, Some("order"), u))
    /\ numAdded' = numAdded + 1
    /\ UNCHANGED <<gabagool_positions, phase, cycles, cross_platform_opps, gabagool_opps,
                   trades, gtrades, cancels, probe,
                   fetched, scanning, settlement_due, markets>>

\* The payouts a caller may pass.
Payouts == {None, Some(0), Some(250)}

\* update_position_settlement of any id, held or not, with any payout.
TrackerSettle ==
    /\ \E id \in TrackerIds, won \in BOOLEAN, payout \in Payouts :
          positions' = update_position_settlement(positions, id, won, payout)
    /\ UNCHANGED <<gabagool_positions, phase, cycles, cross_platform_opps, gabagool_opps,
                   trades, gtrades, numAdded, cancels, probe,
                   fetched, scanning, settlement_due, markets>>

NextTracker ==
    \/ TrackerAdd
    \/ TrackerSettle

SpecTracker == Init /\ [][NextTracker]_vars

---------------------------------------------------------------------------
(* The service loop while Kalshi's event fetch fails: the hedge strategy alone *)

MaxHedgeCycles == 3

ScanTickKalshiDown == ScanArm(Ok(pm_events), KalshiFetchError, MaxHedgeCycles)

NextHedge ==
    \/ ScanTickKalshiDown
    \/ \E j \in DOMAIN gtrades : GabagoolIssue(j)
    \/ \E j \in DOMAIN gtrades : GabagoolFail(j)
    \/ \E j \in DOMAIN gtrades : GabagoolComplete(j)
    \/ GabagoolJoined

SpecHedge == Init /\ [][NextHedge]_vars

---------------------------------------------------------------------------
(* The Arbitrage Detector applied on its own *)

DetectorPrices == {0, 40, 45, 55, 60, 100}
DetectorThresholds == {0, 2, 6}

InitDetector ==
    /\ LoopInit
    /\ probe \in [ kind : {"check_arbitrage"},
                   pm_prices : { MarketPrices(y, n, 300) : y, n \in DetectorPrices },
                   kalshi_prices : { MarketPrices(y, n, 300) : y, n \in DetectorPrices },
                   threshold : DetectorThresholds ]

ApplyDetector ==
    /\ probe.kind = "check_arbitrage"
    /\ probe' = [ kind |-> "check_arbitrage_done",
                  pm_prices |-> probe.pm_prices,
                  kalshi_prices |-> probe.kalshi_prices,
                  threshold |-> probe.threshold,
                  out |-> check_arbitrage(probe.pm_prices, probe.kalshi_prices,
                                          probe.threshold) ]
    /\ UNCHANGED <<positions, gabagool_positions, phase, cycles, cross_platform_opps,
                   gabagool_opps, trades, gtrades, numAdded, cancels,
                   fetched, scanning, settlement_due, markets>>

NextDetector == ApplyDetector

SpecDetector == InitDetector /\ [][NextDetector]_vars

---------------------------------------------------------------------------
(* The cross-venue scan applied on its own, over any similarity of the titles *)

\* Two eligible events a venue, and one each that the filters drop.
scan_pm_events == <<"p1", "p4", "p3">>
scan_kalshi_events == <<"k1", "k4", "k3">>

Scores == {70, 85, 90}

\* The similarities: any score for the eligible pairs, a high one for the rest.
ScanSimilarities ==
    { [ x \in {"p1", "p4", "p3"} \X {"k1", "k4", "k3"} |->
          IF x \in DOMAIN s THEN s[x] ELSE 95 ] :
      s \in [ {"p1", "p4"} \X {"k1", "k4"} -> Scores ] }

InitScan ==
    /\ LoopInit
    /\ probe \in [ kind : {"scan"},
                   sim : ScanSimilarities,
                   quote : QuoteMaps({"p1", "p4", "k1", "k4"}) ]

ApplyScan ==
    /\ probe.kind = "scan"
    /\ probe' = [ kind |-> "scan_done",
                  sim |-> probe.sim,
                  quote |-> probe.quote,
                  matches |-> find_matches(filter_events(scan_pm_events),
                                           filter_events(scan_kalshi_events),
                                           probe.sim, similarity_threshold),
                  opps |-> scan_for_opportunities(scan_pm_events, scan_kalshi_events,
                                                  probe.sim, probe.quote) ]
    /\ UNCHANGED <<positions, gabagool_positions, phase, cycles, cross_platform_opps,
                   gabagool_opps, trades, gtrades, numAdded, cancels,
                   fetched, scanning, settlement_due, markets>>

NextScan == ApplyScan

SpecScan == InitScan /\ [][NextScan]_vars

---------------------------------------------------------------------------
(* The service loop with two eligible Polymarket markets while Kalshi's    *)
(* event fetch fails: the Gabagool trades of a cycle run under one join_all *)

ScanTickTwoMarkets == ScanArm(Ok(scan_pm_events), KalshiFetchError, MaxCycles)

NextConcurrent ==
    \/ ScanTickTwoMarkets
    \/ \E j \in DOMAIN gtrades : GabagoolIssue(j)
    \/ \E j \in DOMAIN gtrades : GabagoolFail(j)
    \/ \E j \in DOMAIN gtrades : GabagoolComplete(j)
    \/ GabagoolJoined

SpecConcurrent == Init /\ [][NextConcurrent]_vars

---------------------------------------------------------------------------
(* The two timers of the loop: the scan arm and the settlement arm of one  *)
(* select!, while Kalshi's event fetch fails                               *)

\* What check_settlement finds for a position: the market is not resolved
\* (Ok(None)), the query failed (Err), or the market resolved for or
\* against the position.
Resolutions == {"open", "error", "won", "lost"}

\* A pass that a failed query brings to an end.
check_settlements_aborting(pos, found, payout) ==
    IF \E id \in DOMAIN pos : pos[id].status = "Open" /\ found[id] = "error"
    THEN pos
    ELSE [ id \in DOMAIN pos |->
             IF pos[id].status = "Open" /\ found[id] \in {"won", "lost"}
             THEN SettledPosition(pos[id], found[id] = "won", payout)
             ELSE pos[id] ]

\* check_settlements (settlement_checker.rs is not among the sources): every
\* Open position whose market is resolved is settled in the ledger; found
\* says what the venue answered for each position.
check_settlements(pos, found, payout) ==
    [ id \in DOMAIN pos |->
        IF pos[id].status = "Open" /\ found[id] \in {"won", "lost"}
        THEN SettledPosition(pos[id], found[id] = "won", payout)
        ELSE pos[id] ]

\* settlement_interval comes due.
SettlementTimer ==
    /\ ~settlement_due
    /\ settlement_due' = TRUE
    /\ UNCHANGED <<positions, gabagool_positions, phase, cycles, cross_platform_opps,
                   gabagool_opps, trades, gtrades, numAdded, cancels, probe,
                   fetched, scanning, markets>>

\* The settlement arm of select!: taken when the loop is at select! and the
\* tick is due.
SettlementArm ==
    /\ phase = "idle"
    /\ settlement_due
    /\ settlement_due' = FALSE
    /\ \E found \in [DOMAIN positions -> Resolutions], payout \in Payouts :
          positions' = check_settlements(positions, found, payout)
    /\ UNCHANGED <<gabagool_positions, phase, cycles, cross_platform_opps,
                   gabagool_opps, trades, gtrades, numAdded, cancels, probe,
                   fetched, scanning, markets>>

NextDrivers ==
    \/ ScanTickKalshiDown
    \/ \E j \in DOMAIN gtrades : GabagoolIssue(j)
    \/ \E j \in DOMAIN gtrades : GabagoolFail(j)
    \/ \E j \in DOMAIN gtrades : GabagoolComplete(j)
    \/ GabagoolJoined
    \/ SettlementTimer
    \/ SettlementArm

SpecDrivers == Init /\ [][NextDrivers]_vars

---------------------------------------------------------------------------
(* The service loop while, in every cycle, the event fetch of at least one *)
(* venue fails                                                             *)

\* PolymarketClient::fetch_events failed.
PmFetchError == Err("pm_fetch_error")

ScanTickDegraded ==
    \E pm_result \in {Ok(pm_events), PmFetchError},
       kalshi_result \in {Ok(kalshi_events), KalshiFetchError} :
        /\ ~pm_result.ok \/ ~kalshi_result.ok
        /\ ScanArm(pm_result, kalshi_result, MaxHedgeCycles)

NextDegraded ==
    \/ ScanTickDegraded
    \/ \E j \in DOMAIN gtrades : GabagoolIssue(j)
    \/ \E j \in DOMAIN gtrades : GabagoolFail(j)
    \/ \E j \in DOMAIN gtrades : GabagoolComplete(j)
    \/ GabagoolJoined

SpecDegraded == Init /\ [][NextDegraded]_vars

---------------------------------------------------------------------------
(* The two scans of one tick followed fetch by fetch: every price fetch is *)
(* a future of its scan's join_all                                         *)

\* The titles of p1/k1 and of p4/k4 match, no other pair does.
FetchSimilarity ==
    [ x \in Range(scan_pm_events) \X Range(scan_kalshi_events) |->
        IF x \in {<<"p1", "k1">>, <<"p4", "k4">>} THEN 90 ELSE 70 ]

\* A price fetch of a scan: not polled yet.
NewFetch == [st |-> "pending", prices |-> None]

\* The price fetches a tick creates: <<scan, event>>.
FetchesOf(pm, kalshi, sim) ==
    ({"cross"} \X CrossLegs(pm, kalshi, sim)) \cup ({"gabagool"} \X GabagoolLegs(pm))

\* A scan that awaits each fetch before it makes the next one.
FetchIssuableInTurn(legs, leg) ==
    /\ legs[leg].st = "pending"
    /\ \A other \in DOMAIN legs : legs[other].st # "inflight"

\* join! and join_all poll every future they hold: a fetch is issued
\* whatever the state of the others.
FetchIssuable(legs, leg) == legs[leg].st = "pending"

\* join_all of a scan has returned: every price fetch of the scan is done.
FetchesJoined(legs, scan) ==
    \A leg \in DOMAIN legs : leg[1] = scan => legs[leg].st = "done"

\* The quotes a scan's join_all hands to its detection loop.
FetchedQuotes(legs, scan) ==
    [ e \in { leg[2] : leg \in { l \in DOMAIN legs : l[1] = scan } } |->
        Unwrap(legs[<<scan, e>>].prices) ]

\* The tick: the events are fetched and both scans are entered.
StartScans ==
    /\ phase = "idle"
    /\ cycles < MaxCycles
    /\ phase' = "scanning"
    /\ cycles' = cycles + 1
    /\ scanning' = [ legs |-> [ leg \in FetchesOf(scan_pm_events, scan_kalshi_events,
                                                  FetchSimilarity) |-> NewFetch ],
                     detected |-> {} ]
    /\ cross_platform_opps' = <<>>
    /\ gabagool_opps' = <<>>
    /\ UNCHANGED <<positions, gabagool_positions, trades, gtrades, numAdded, cancels,
                   probe, fetched, settlement_due, markets>>

\* A price fetch is polled for the first time: the request leaves.
IssueFetch(leg) ==
    /\ phase = "scanning"
    /\ FetchIssuable(scanning.legs, leg)
    /\ scanning' = [scanning EXCEPT !.legs[leg].st = "inflight"]
    /\ UNCHANGED <<positions, gabagool_positions, phase, cycles, cross_platform_opps,
                   gabagool_opps, trades, gtrades, numAdded, cancels, probe,
                   fetched, settlement_due, markets>>

\* The venue answers a price fetch.
CompleteFetch(leg) ==
    /\ phase = "scanning"
    /\ scanning.legs[leg].st = "inflight"
    /\ \E q \in QuotesOf(leg[2]) :
          scanning' = [scanning EXCEPT !.legs[leg] = [st |-> "done", prices |-> Some(q)]]
    /\ UNCHANGED <<positions, gabagool_positions, phase, cycles, cross_platform_opps,
                   gabagool_opps, trades, gtrades, numAdded, cancels, probe,
                   fetched, settlement_due, markets>>

\* The detection loop of scan_for_opportunities, after its join_all.
DetectCross ==
    /\ phase = "scanning"
    /\ "cross" \notin scanning.detected
    /\ FetchesJoined(scanning.legs, "cross")
    /\ cross_platform_opps' =
          CollectCross(find_matches(filter_events(scan_pm_events),
                                    filter_events(scan_kalshi_events),
                                    FetchSimilarity, similarity_threshold),
                       FetchedQuotes(scanning.legs, "cross"))
    /\ scanning' = [scanning EXCEPT !.detected = @ \cup {"cross"}]
    /\ UNCHANGED <<positions, gabagool_positions, phase, cycles, gabagool_opps,
                   trades, gtrades, numAdded, cancels, probe, fetched, settlement_due, markets>>

\* The detection loop of scan_gabagool_opportunities, after its join_all.
DetectGabagool ==
    /\ phase = "scanning"
    /\ "gabagool" \notin scanning.detected
    /\ FetchesJoined(scanning.legs, "gabagool")
    /\ gabagool_opps' =
          CollectGabagool(filter_events(scan_pm_events),
                          FetchedQuotes(scanning.legs, "gabagool"), gabagool_positions)
    /\ scanning' = [scanning EXCEPT !.detected = @ \cup {"gabagool"}]
    /\ UNCHANGED <<positions, gabagool_positions, phase, cycles, cross_platform_opps,
                   trades, gtrades, numAdded, cancels, probe, fetched, settlement_due, markets>>

\* Both scans have returned to main's join!.
ScansJoined ==
    /\ phase = "scanning"
    /\ scanning.detected = {"cross", "gabagool"}
    /\ phase' = "idle"
    /\ scanning' = NoScanning
    /\ UNCHANGED <<positions, gabagool_positions, cycles, cross_platform_opps,
                   gabagool_opps, trades, gtrades, numAdded, cancels, probe,
                   fetched, settlement_due, markets>>

NextFetch ==
    \/ StartScans
    \/ \E leg \in DOMAIN scanning.legs : IssueFetch(leg)
    \/ \E leg \in DOMAIN scanning.legs : CompleteFetch(leg)
    \/ DetectCross
    \/ DetectGabagool
    \/ ScansJoined

SpecFetch == Init /\ [][NextFetch]_vars

---------------------------------------------------------------------------
(* The two scans applied on their own to one matched pair, over any        *)
(* liquidity floor and any outcome of the price fetches                    *)

\* filters.min_liquidity: no floor, or the floor main sets.
Floors == {0, min_liquidity}

\* Quotes just under the floor of main, exactly at it, and above it.
ProbeQuotes ==
    { MarketPrices(pr[1], pr[2], l) :
        pr \in {<<40, 50>>, <<60, 45>>}, l \in {min_liquidity - 1, min_liquidity, 300} }

\* What a venue's fetch_prices returns.
FetchPricesResults == {Err("fetch_prices_error")} \cup { Ok(q) : q \in ProbeQuotes }

\* unwrap_or_default() on a fetch_prices result: the quote, or the quote of
\* zeros (MarketPrices has no Default impl in event.rs; the zero quote is
\* the one the closures' fallback arm builds).
unwrap_or_default(result) ==
    IF result.ok THEN result.val ELSE MarketPrices(0, 0, 0)

InitQuotes ==
    /\ LoopInit
    /\ probe \in [ kind : {"quotes"},
                   floor : Floors,
                   pm : FetchPricesResults,
                   kalshi : FetchPricesResults,
                   gabagool : FetchPricesResults ]

\* Both scans over p1 and k1, each with the quotes its own fetches gave.
ApplyQuotes ==
    /\ probe.kind = "quotes"
    /\ LET cross_quote == [ e \in {"p1", "k1"} |->
                              IF e = "p1" THEN unwrap_or_default(probe.pm)
                              ELSE unwrap_or_default(probe.kalshi) ]
           gabagool_quote == [ e \in {"p1"} |-> unwrap_or_default(probe.gabagool) ]
       IN  probe' = [ kind |-> "quotes_done",
                      floor |-> probe.floor,
                      pm |-> probe.pm,
                      kalshi |-> probe.kalshi,
                      gabagool |-> probe.gabagool,
                      cross_opps |-> scan_for_opportunities_at(probe.floor, <<"p1">>, <<"k1">>,
                                                               Similarity, cross_quote),
                      gabagool_opps |-> scan_gabagool_opportunities_at(probe.floor, <<"p1">>,
                                            gabagool_quote, gabagool_positions) ]
    /\ UNCHANGED <<positions, gabagool_positions, phase, cycles, cross_platform_opps,
                   gabagool_opps, trades, gtrades, numAdded, cancels,
                   fetched, scanning, settlement_due, markets>>

NextQuotes == ApplyQuotes

SpecQuotes == InitQuotes /\ [][NextQuotes]_vars

---------------------------------------------------------------------------
(* run_continuous: the one-shot discovery loop of bot.rs                   *)

MaxContinuousTicks == 3

\* What fetch_events hands to a scan of run_continuous: each venue's list,
\* or nothing for it.
ContinuousEvents ==
    { <<pm, kalshi>> : pm \in {scan_pm_events, <<>>}, kalshi \in {scan_kalshi_events, <<>>} }

\* A loop that returns the batch of its first scan, whatever it holds.
ReturnsAnyBatch(opportunities) == TRUE

\* if !opportunities.is_empty() { return opportunities; }
ReturnsBatch(opportunities) == opportunities # <<>>

InitContinuous ==
    /\ LoopInit
    /\ probe = [ kind |-> "continuous", pc |-> "tick", ticks |-> 0, input |-> None,
                 batches |-> <<>>, returned |-> None ]

\* interval.tick().await
ContinuousTick ==
    /\ probe.kind = "continuous"
    /\ probe.pc = "tick"
    /\ probe.ticks < MaxContinuousTicks
    /\ probe' = [probe EXCEPT !.pc = "scan", !.ticks = @ + 1]
    /\ UNCHANGED <<positions, gabagool_positions, phase, cycles, cross_platform_opps,
                   gabagool_opps, trades, gtrades, numAdded, cancels,
                   fetched, scanning, settlement_due, markets>>

\* fetch_events().await, then scan_for_opportunities(...).await
ContinuousScan ==
    /\ probe.kind = "continuous"
    /\ probe.pc = "scan"
    /\ \E ev \in ContinuousEvents :
          \E quote \in QuoteMaps(CrossLegs(ev[1], ev[2], FetchSimilarity)) :
              probe' = [probe EXCEPT
                          !.pc = "scanned",
                          !.input = Some([events |-> ev, quote |-> quote]),
                          !.batches = Append(@, scan_for_opportunities(ev[1], ev[2],
                                                    FetchSimilarity, quote))]
    /\ UNCHANGED <<positions, gabagool_positions, phase, cycles, cross_platform_opps,
                   gabagool_opps, trades, gtrades, numAdded, cancels,
                   fetched, scanning, settlement_due, markets>>

\* The test on the batch: return it, or go round the loop.
ContinuousDecide ==
    /\ probe.kind = "continuous"
    /\ probe.pc = "scanned"
    /\ LET opportunities == probe.batches[Len(probe.batches)]
       IN  probe' = IF ReturnsBatch(opportunities)
                    THEN [probe EXCEPT !.pc = "returned", !.returned = Some(opportunities)]
                    ELSE [probe EXCEPT !.pc = "tick"]
    /\ UNCHANGED <<positions, gabagool_positions, phase, cycles, cross_platform_opps,
                   gabagool_opps, trades, gtrades, numAdded, cancels,
                   fetched, scanning, settlement_due, markets>>

NextContinuous ==
    \/ ContinuousTick
    \/ ContinuousScan
    \/ ContinuousDecide

SpecContinuous == InitContinuous /\ [][NextContinuous]_vars

\* run_continuous is sequential code: once the scan has returned, the test
\* on its batch is made.
FairContinuous == SpecContinuous /\ WF_vars(ContinuousDecide)

---------------------------------------------------------------------------
(* The Event Filter applied on its own, over any events                    *)

MaxFilterEvents == 2

FilterNames == {"e1", "e2"}

\* Minutes to resolution: none, just under and at the lower bound, inside,
\* at and just over the upper bound.
FilterDates ==
    { None, Some(min_minutes_until_resolution - 1), Some(min_minutes_until_resolution),
      Some(30), Some(60 * max_hours_until_resolution),
      Some(60 * max_hours_until_resolution + 1) }

FilterAttrs ==
    [ FilterNames -> [ category : {None, Some("crypto"), Some("politics")},
                       hit : BOOLEAN,
                       resolution_date : FilterDates ] ]

\* The event lists of at most MaxFilterEvents entries.
FilterInputs ==
    UNION { [1..n -> FilterNames] : n \in 0..MaxFilterEvents }

InitFilter ==
    /\ LoopInit
    /\ probe \in [ kind : {"filter"}, events : FilterInputs, attr : FilterAttrs ]

ApplyFilter ==
    /\ probe.kind = "filter"
    /\ probe' = [ kind |-> "filter_done",
                  events |-> probe.events,
                  attr |-> probe.attr,
                  filtered |-> filter_events_with(probe.events, probe.attr) ]
    /\ UNCHANGED <<positions, gabagool_positions, phase, cycles, cross_platform_opps,
                   gabagool_opps, trades, gtrades, numAdded, cancels,
                   fetched, scanning, settlement_due, markets>>

NextFilter == ApplyFilter

SpecFilter == InitFilter /\ [][NextFilter]_vars

---------------------------------------------------------------------------
(* execute_trade against any answer place_order's type allows, on two      *)
(* eligible Polymarket markets                                             *)

\* Result<Option<String>>: an order id, no order id, an error.
AnyPlaceOrderResults == PmPlaceOrderResults \cup {Ok(None)}

GabagoolCompleteAny(j) == GabagoolCompleteWith(j, AnyPlaceOrderResults)

NextExecute ==
    \/ ScanTickTwoMarkets
    \/ \E j \in DOMAIN gtrades : GabagoolIssue(j)
    \/ \E j \in DOMAIN gtrades : GabagoolFail(j)
    \/ \E j \in DOMAIN gtrades : GabagoolCompleteAny(j)
    \/ GabagoolJoined

SpecExecute == Init /\ [][NextExecute]_vars

---------------------------------------------------------------------------
(* The reconciler against markets that resolve: the two arms of the loop   *)
(* while Kalshi's event fetch fails, and the venue's markets               *)

ScanTickSettle == ScanArm(Ok(pm_events), KalshiFetchError, MaxCycles)

\* The venue resolves the market of event e, for good.
MarketResolves(e) ==
    /\ markets[e] = "open"
    /\ \E outcome \in {"YES", "NO"} : markets' = [markets EXCEPT ![e] = outcome]
    /\ UNCHANGED <<positions, gabagool_positions, phase, cycles, cross_platform_opps,
                   gabagool_opps, trades, gtrades, numAdded, cancels, probe,
                   fetched, scanning, settlement_due>>

\* What a query for a position can give: an error at any time, else what
\* the market's state says for the position's side.
VenueAnswers(mk, position) ==
    {"error"} \cup
    { IF mk[position.event_id] = "open" THEN "open"
      ELSE IF mk[position.event_id] = position.outcome THEN "won" ELSE "lost" }

\* A pass that leaves alone what it finds resolved.
ObservedSettledNever(pos, found, payout) == pos

\* The pass applied to what the venue answered.
ObservedSettled(pos, found, payout) == check_settlements(pos, found, payout)

\* The settlement arm of select!; answered: no query of the pass fails.
SettlementPass(answered) ==
    /\ phase = "idle"
    /\ settlement_due
    /\ settlement_due' = FALSE
    /\ \E found \in [DOMAIN positions -> Resolutions] :
          /\ \A id \in DOMAIN positions : found[id] \in VenueAnswers(markets, positions[id])
          /\ answered => \A id \in DOMAIN positions : found[id] # "error"
          /\ positions' = ObservedSettled(positions, found, None)
    /\ UNCHANGED <<gabagool_positions, phase, cycles, cross_platform_opps,
                   gabagool_opps, trades, gtrades, numAdded, cancels, probe,
                   fetched, scanning, markets>>

NextSettle ==
    \/ ScanTickSettle
    \/ \E j \in DOMAIN gtrades : GabagoolIssue(j)
    \/ \E j \in DOMAIN gtrades : GabagoolFail(j)
    \/ \E j \in DOMAIN gtrades : GabagoolComplete(j)
    \/ GabagoolJoined
    \/ MarketResolves("p1")
    \/ SettlementTimer
    \/ \E answered \in BOOLEAN : SettlementPass(answered)

SpecSettle == Init /\ [][NextSettle]_vars

\* The timer keeps firing, the body of the scan arm runs to its end, and
\* the venue answers the queries of a pass again and again.
FairSettle ==
    /\ SpecSettle
    /\ WF_vars(SettlementTimer)
    /\ WF_vars(\E j \in DOMAIN gtrades : GabagoolIssue(j))
    /\ WF_vars(\E j \in DOMAIN gtrades : GabagoolFail(j) \/ GabagoolComplete(j))
    /\ WF_vars(GabagoolJoined)
    /\ SF_vars(SettlementPass(TRUE))

---------------------------------------------------------------------------
(* Startup: main reads the credentials from the environment, then enters   *)
(* the loop or returns the error                                           *)

\* std::env::var of a name: unset, set to the empty string, or set.
EnvValues == {None, Some(""), Some("key")}

\* unwrap_or_else(|_| "".to_string()) of a variable read.
or_empty(v) == IF v = None THEN "" ELSE v[1]

\* A check that looks at the API key alone.
credentials_missing_key_only(kalshi_api_key, kalshi_api_secret) ==
    kalshi_api_key = ""

\* kalshi_api_key.is_empty() || kalshi_api_secret.is_empty()
credentials_missing(kalshi_api_key, kalshi_api_secret) ==
    kalshi_api_key = "" \/ kalshi_api_secret = ""

InitStartup ==
    /\ LoopInit
    /\ \E w \in EnvValues, k \in EnvValues, s \in EnvValues :
          probe = [kind |-> "startup", pc |-> "main", wallet_key |-> w,
                   KALSHI_API_KEY |-> k, KALSHI_API_SECRET |-> s, log |-> <<>>]

\* main from its first line to the loop: the warnings for what is unset,
\* then the fatal return when a Kalshi credential is empty.
ReadCredentials ==
    /\ probe.kind = "startup"
    /\ probe.pc = "main"
    /\ LET kalshi_api_key == or_empty(probe.KALSHI_API_KEY)
           kalshi_api_secret == or_empty(probe.KALSHI_API_SECRET)
           warned == (IF probe.wallet_key = None THEN <<"warn wallet">> ELSE <<>>)
                     \o (IF probe.KALSHI_API_KEY = None THEN <<"warn key">> ELSE <<>>)
                     \o (IF probe.KALSHI_API_SECRET = None THEN <<"warn secret">> ELSE <<>>)
       IN  IF credentials_missing(kalshi_api_key, kalshi_api_secret)
           THEN probe' = [probe EXCEPT !.pc = "failed",
                                       !.log = warned \o <<"error credentials">>]
           ELSE probe' = [probe EXCEPT !.pc = "loop", !.log = warned]
    /\ UNCHANGED <<positions, gabagool_positions, phase, cycles, cross_platform_opps,
                   gabagool_opps, trades, gtrades, numAdded, cancels,
                   fetched, scanning, settlement_due, markets>>

\* The loop is entered only after the credentials were read and accepted.
InLoop == probe.pc = "loop"

NextStartup ==
    \/ ReadCredentials
    \/ InLoop /\ ScanTickSettle
    \/ InLoop /\ \E j \in DOMAIN gtrades : GabagoolIssue(j)
    \/ InLoop /\ \E j \in DOMAIN gtrades : GabagoolFail(j)
    \/ InLoop /\ \E j \in DOMAIN gtrades : GabagoolComplete(j)
    \/ InLoop /\ GabagoolJoined
    \/ InLoop /\ SettlementTimer
    \/ InLoop /\ \E answered \in BOOLEAN : SettlementPass(answered)

SpecStartup == InitStartup /\ [][NextStartup]_vars

\* main runs on, and the scan interval's first tick is taken.
FairStartup ==
    /\ SpecStartup
    /\ WF_vars(ReadCredentials)
    /\ WF_vars(InLoop /\ ScanTickSettle)

---------------------------------------------------------------------------
(* The price cache of a client: the two scans of one cycle call            *)
(* fetch_prices of the shared client while the clock runs                  *)

\* The cache's time to live, in ticks of the clock.
ttl == 2

MaxNow == 3

MaxAsks == 2

CacheKeys == {"p1", "p4"}

Callers == {"cross", "gabagool"}

CacheQuotes == { MarketPrices(40, 50, 300), MarketPrices(50, 40, 300) }

PriceCacheEntry(prices, timestamp) == [prices |-> prices, timestamp |-> timestamp]

\* A get that still serves an entry at the very end of its life.
PriceCache_get_at_ttl(entries, key, now) ==
    IF entries[key] # None /\ now - entries[key][1].timestamp <= ttl
    THEN Some(entries[key][1].prices)
    ELSE None

\* PriceCache::get at time now: the entry's prices while
\* timestamp.elapsed() < ttl.
PriceCache_get(entries, key, now) ==
    IF entries[key] # None /\ now - entries[key][1].timestamp < ttl
    THEN Some(entries[key][1].prices)
    ELSE None

\* PriceCache::set at time now.
PriceCache_set(entries, key, prices, now) ==
    [entries EXCEPT ![key] = Some(PriceCacheEntry(prices, now))]

NoCall == [pc |-> "idle", key |-> "", result |-> None, asks |-> 0]

InitCache ==
    /\ LoopInit
    /\ probe = [kind |-> "cache", now |-> 0,
                entries |-> [k \in CacheKeys |-> None],
                calls |-> [c \in Callers |-> NoCall],
                requests |-> [k \in CacheKeys |-> 0]]

UnchangedLoop ==
    UNCHANGED <<positions, gabagool_positions, phase, cycles, cross_platform_opps,
                gabagool_opps, trades, gtrades, numAdded, cancels,
                fetched, scanning, settlement_due, markets>>

\* Time passes.
ClockTick ==
    /\ probe.kind = "cache"
    /\ probe.now < MaxNow
    /\ probe' = [probe EXCEPT !.now = @ + 1]
    /\ UnchangedLoop

\* fetch_prices up to its first suspension: the cached quote is returned,
\* or the request is sent.
FetchPricesCall(c, key) ==
    /\ probe.kind = "cache"
    /\ probe.calls[c].pc = "idle"
    /\ probe.calls[c].asks < MaxAsks
    /\ LET cached == PriceCache_get(probe.entries, key, probe.now)
       IN  IF cached # None
           THEN probe' = [probe EXCEPT
                    !.calls[c] = [pc |-> "done", key |-> key, result |-> Some(Ok(cached[1])),
                                  asks |-> @.asks + 1]]
           ELSE probe' = [probe EXCEPT
                    !.calls[c] = [pc |-> "waiting", key |-> key, result |-> None,
                                  asks |-> @.asks + 1],
                    !.requests[key] = @ + 1]
    /\ UnchangedLoop

\* The venue answers: the quote is stored and returned.
FetchPricesOk(c, prices) ==
    /\ probe.kind = "cache"
    /\ probe.calls[c].pc = "waiting"
    /\ probe' = [probe EXCEPT
            !.entries = PriceCache_set(@, probe.calls[c].key, prices, probe.now),
            !.calls[c].pc = "done",
            !.calls[c].result = Some(Ok(prices))]
    /\ UnchangedLoop

\* The request or the parse of its answer fails: the error is returned by ?.
FetchPricesErr(c) ==
    /\ probe.kind = "cache"
    /\ probe.calls[c].pc = "waiting"
    /\ probe' = [probe EXCEPT
            !.calls[c].pc = "done",
            !.calls[c].result = Some(Err("fetch_prices_error"))]
    /\ UnchangedLoop

\* The caller takes the result and goes on.
FetchPricesReturn(c) ==
    /\ probe.kind = "cache"
    /\ probe.calls[c].pc = "done"
    /\ probe' = [probe EXCEPT !.calls[c].pc = "idle"]
    /\ UnchangedLoop

NextCache ==
    \/ ClockTick
    \/ \E c \in Callers, key \in CacheKeys : FetchPricesCall(c, key)
    \/ \E c \in Callers, prices \in CacheQuotes : FetchPricesOk(c, prices)
    \/ \E c \in Callers : FetchPricesErr(c)
    \/ \E c \in Callers : FetchPricesReturn(c)

SpecCache == InitCache /\ [][NextCache]_vars

---------------------------------------------------------------------------
(* What the service loop writes to the log when a call fails: every        *)
(* fallible call of a cycle and of a settlement pass, with either outcome  *)

LogRecord(level, about) == [level |-> level, about |-> about]

InitLog ==
    /\ LoopInit
    /\ probe = [kind |-> "log", failed |-> {}, log |-> {}]

\* The record of the calls after one went through its handler: whether it
\* failed, and what was logged.
Logged(about, failure, records) ==
    [probe EXCEPT
        !.failed = @ \cup (IF failure THEN {about} ELSE {}),
        !.log = @ \cup records]

\* PolymarketClient::fetch_events and main's unwrap_or_default(): Gamma
\* first unless switched off, with a warning when it fails, then GraphQL.
PmFetchEventsLogged(use_gamma, gamma_ok, graphql_ok) ==
    /\ probe.kind = "log"
    /\ probe' = Logged("polymarket fetch_events",
                       ~(use_gamma /\ gamma_ok) /\ ~graphql_ok,
                       IF use_gamma /\ ~gamma_ok
                       THEN {LogRecord("warn", "polymarket fetch_events")} ELSE {})
    /\ UnchangedLoop

\* KalshiClient::fetch_events and main's unwrap_or_default().
KalshiFetchEventsLogged(ok) ==
    /\ probe.kind = "log"
    /\ probe' = Logged("kalshi fetch_events", ~ok, {})
    /\ UnchangedLoop

\* The fetch_prices closure of main: unwrap_or_default() on the result.
FetchPricesLogged(platform, ok) ==
    /\ probe.kind = "log"
    /\ probe' = Logged(platform \o " fetch_prices", ~ok, {})
    /\ UnchangedLoop

\* place_order_on_platform: the error is logged and returned.
PlaceOrderLogged(platform, ok) ==
    /\ probe.kind = "log"
    /\ probe' = Logged(platform \o " place_order", ~ok,
                       IF ok THEN {}
                       ELSE {LogRecord("error", platform \o " place_order")})
    /\ UnchangedLoop

\* GabagoolExecutor::execute_trade returns the error with ?, and main logs
\* it after join_all.
GabagoolOrderLogged(ok) ==
    /\ probe.kind = "log"
    /\ probe' = Logged("gabagool place_order", ~ok,
                       IF ok THEN {}
                       ELSE {LogRecord("error", "gabagool place_order")})
    /\ UnchangedLoop

\* The settlement arm: Err(e) => error!.
CheckSettlementsLogged(ok) ==
    /\ probe.kind = "log"
    /\ probe' = Logged("check_settlements", ~ok,
                       IF ok THEN {}
                       ELSE {LogRecord("error", "check_settlements")})
    /\ UnchangedLoop

Platforms == {"polymarket", "kalshi"}

NextLog ==
    \/ \E use_gamma \in BOOLEAN, gamma_ok \in BOOLEAN, graphql_ok \in BOOLEAN :
          PmFetchEventsLogged(use_gamma, gamma_ok, graphql_ok)
    \/ \E ok \in BOOLEAN : KalshiFetchEventsLogged(ok)
    \/ \E platform \in Platforms, ok \in BOOLEAN : FetchPricesLogged(platform, ok)
    \/ \E platform \in Platforms, ok \in BOOLEAN : PlaceOrderLogged(platform, ok)
    \/ \E ok \in BOOLEAN : GabagoolOrderLogged(ok)
    \/ \E ok \in BOOLEAN : CheckSettlementsLogged(ok)

SpecLog == InitLog /\ [][NextLog]_vars

---------------------------------------------------------------------------
(* The ledger's listings: positions is a std HashMap, whose values() come  *)
(* in an order the map's hasher decides                                    *)

\* The sequences that hold every element of S once.
Orders(S) ==
    { f \in [1..Cardinality(S) -> S] : \A i, k \in 1..Cardinality(S) : f[i] = f[k] => i = k }

\* HashMap::values(): the positions in any order of the keys.
values(tracker) ==
    { [i \in DOMAIN order |-> tracker[order[i]]] : order \in Orders(DOMAIN tracker) }

\* get_all_positions, get_open_positions and get_positions_by_platform as
\* the Vec they return, for one iteration order of the map.
ListAll(vs) == vs

ListOpen(vs) == SelectSeq(vs, LAMBDA q : q.status = "Open")

ListByPlatform(vs, platform) == SelectSeq(vs, LAMBDA q : q.platform = platform)

InitListing ==
    /\ LoopInit
    /\ probe = [kind |-> "listing", added |-> <<>>, call |-> "none", listed |-> <<>>]

\* add_position of a fresh Position::new; added keeps the ids in the order
\* of their first insertion.
ListingAdd ==
    /\ probe.kind = "listing"
    /\ numAdded < MaxAdds
    /\ \E platform \in {"polymarket", "kalshi"}, u \in Uuids :
          LET position == Position_new(platform, IF platform = "polymarket" THEN "p1" ELSE "k1",
                                       IF platform = "polymarket" THEN "YES" ELSE "NO",
                                       250, 100, 40, Some("order"), u)
          IN  /\ positions' = add_position(positions, position)
              /\ probe' = [probe EXCEPT
                      !.added = IF position.id \in DOMAIN positions THEN @
                                ELSE Append(@, position.id),
                      !.call = "none", !.listed = <<>>]
    /\ numAdded' = numAdded + 1
    /\ UNCHANGED <<gabagool_positions, phase, cycles, cross_platform_opps, gabagool_opps,
                   trades, gtrades, cancels,
                   fetched, scanning, settlement_due, markets>>

\* update_position_settlement of a held position.
ListingSettle ==
    /\ probe.kind = "listing"
    /\ \E id \in DOMAIN positions, won \in BOOLEAN :
          /\ positions[id].status = "Open"
          /\ positions' = update_position_settlement(positions, id, won, None)
    /\ probe' = [probe EXCEPT !.call = "none", !.listed = <<>>]
    /\ UNCHANGED <<gabagool_positions, phase, cycles, cross_platform_opps, gabagool_opps,
                   trades, gtrades, numAdded, cancels,
                   fetched, scanning, settlement_due, markets>>

\* One of the three listings is called; listed holds the ids of its result.
Listing(call) ==
    /\ probe.kind = "listing"
    /\ \E vs \in values(positions) :
          LET result == CASE call = "all" -> ListAll(vs)
                          [] call = "open" -> ListOpen(vs)
                          [] OTHER -> ListByPlatform(vs, call)
          IN  probe' = [probe EXCEPT
                  !.call = call,
                  !.listed = [i \in DOMAIN result |-> result[i].id]]
    /\ UNCHANGED <<positions, gabagool_positions, phase, cycles, cross_platform_opps,
                   gabagool_opps, trades, gtrades, numAdded, cancels,
                   fetched, scanning, settlement_due, markets>>

NextListing ==
    \/ ListingAdd
    \/ ListingSettle
    \/ Listing("all")
    \/ Listing("open")
    \/ \E platform \in {"polymarket", "kalshi"} : Listing(platform)

SpecListing == InitListing /\ [][NextListing]_vars

---------------------------------------------------------------------------
(* The locked profit the Gabagool executor reports: get_statistics and the *)
(* log of execute_trade, over hedge positions with money in cents          *)

\* Pair costs are kept in quarters of a money unit: the quotients of the
\* costs by the quantities of StatQtys are whole in that scale.
PairScale == 4

StatQtys == {0, 1, 2, 4}

StatCosts == {0, 40, 50, 120}

StatEvents == {"p1", "p4"}

StatPositions ==
    [ yes_qty : StatQtys, yes_cost : StatCosts, no_qty : StatQtys, no_cost : StatCosts ]

\* A statistic that pairs up the larger of the two sides.
locked_of_larger_side(pos, one) ==
    LET min_qty == IF pos.yes_qty >= pos.no_qty THEN pos.yes_qty ELSE pos.no_qty
    IN  IF min_qty > 0
        THEN LET pair_cost == ((pos.yes_cost + pos.no_cost) * PairScale) \div min_qty
             IN  IF pair_cost < one * PairScale
                 THEN [pairs |-> min_qty,
                       profit |-> ((one * PairScale - pair_cost) * min_qty) \div PairScale]
                 ELSE [pairs |-> 0, profit |-> 0]
        ELSE [pairs |-> 0, profit |-> 0]

\* What one position adds to locked_pairs and locked_profit in the loop of
\* get_statistics; one is 1.0 in the unit of the costs.
locked_of(pos, one) ==
    LET min_qty == Min(pos.yes_qty, pos.no_qty)
    IN  IF min_qty > 0
        THEN LET pair_cost == ((pos.yes_cost + pos.no_cost) * PairScale) \div min_qty
             IN  IF pair_cost < one * PairScale
                 THEN [pairs |-> min_qty,
                       profit |-> ((one * PairScale - pair_cost) * min_qty) \div PairScale]
                 ELSE [pairs |-> 0, profit |-> 0]
        ELSE [pairs |-> 0, profit |-> 0]

RECURSIVE SumOver(_, _)
SumOver(f, S) ==
    IF S = {} THEN 0
    ELSE LET e == CHOOSE x \in S : TRUE IN f[e] + SumOver(f, S \ {e})

\* GabagoolExecutor::get_statistics: the sums over the hedge positions.
gabagool_get_statistics(gpos, one) ==
    LET es == DOMAIN gpos
    IN  [ total_events |-> Cardinality(es),
          total_yes_qty |-> SumOver([e \in es |-> gpos[e].yes_qty], es),
          total_no_qty |-> SumOver([e \in es |-> gpos[e].no_qty], es),
          total_yes_cost |-> SumOver([e \in es |-> gpos[e].yes_cost], es),
          total_no_cost |-> SumOver([e \in es |-> gpos[e].no_cost], es),
          locked_profit |-> SumOver([e \in es |-> locked_of(gpos[e], one).profit], es),
          locked_pairs |-> SumOver([e \in es |-> locked_of(gpos[e], one).pairs], es) ]

\* The "Profit LOCKED" line execute_trade writes for the position it has
\* just updated: the profit, or none when the line is not written.
logged_locked_profit(pos, total_cost, one) ==
    LET min_qty == Min(pos.yes_qty, pos.no_qty)
        pair_cost == IF min_qty > 0
                     THEN ((pos.yes_cost + pos.no_cost) * PairScale) \div min_qty
                     ELSE total_cost * PairScale
    IN  IF pair_cost < one * PairScale /\ min_qty > 0
        THEN Some(((one * PairScale - pair_cost) * min_qty) \div PairScale)
        ELSE None

InitStats ==
    /\ LoopInit
    /\ probe \in [ kind : {"stats"}, gpos : [StatEvents -> StatPositions] ]

ApplyStats ==
    /\ probe.kind = "stats"
    /\ probe' = [ kind |-> "stats_done",
                  gpos |-> probe.gpos,
                  stats |-> gabagool_get_statistics(probe.gpos, 100),
                  logged |-> [e \in StatEvents |-> logged_locked_profit(probe.gpos[e], 90, 100)] ]
    /\ UnchangedLoop

NextStats == ApplyStats

SpecStats == InitStats /\ [][NextStats]_vars

---------------------------------------------------------------------------
(* PolymarketClient::place_order down to the signing layer of              *)
(* polymarket_blockchain.rs, called again and again by the executors       *)

WalletKeys == {None, Some("not a key"), Some("0xkey")}

PlaceOrderArgs ==
    [ event_id : {"p1", "p4"}, outcome : {"YES", "NO"}, max_price : {40, 45, 50} ]

\* PolymarketBlockchain::new(rpc_url)?.with_wallet(private_key): the
\* provider, then the key parsed as a LocalWallet.
blockchain_with_wallet(rpc_ok, private_key) ==
    IF ~rpc_ok THEN Err("Failed to create Polygon provider")
    ELSE IF private_key # "0xkey" THEN Err("Failed to initialize blockchain client")
    ELSE Ok(Some(private_key))

\* place_order_via_blockchain: the wallet is required, then the error about
\* the contract addresses is returned; the function has no other return.
place_order_via_blockchain(wallet, args) ==
    IF wallet = None THEN Err("Wallet required for blockchain orders")
    ELSE Err("Polymarket contract addresses required")

\* place_order_via_clob: the wallet is required, then the error about the
\* EIP-712 signature is returned; the function has no other return.
place_order_via_clob(wallet, args) ==
    IF wallet = None THEN Err("Wallet required for CLOB orders")
    ELSE Err("Polymarket CLOB API requires EIP-712 signature")

InitPlaceOrder ==
    /\ LoopInit
    /\ probe \in [ kind : {"place_order"}, wallet_private_key : WalletKeys,
                   rpc_ok : BOOLEAN, args : PlaceOrderArgs,
                   pc : {"call"}, result : {None} ]

\* place_order up to the match: the key must be configured and the
\* blockchain client built; each ? returns the error.
PlaceOrderEnter ==
    /\ probe.kind = "place_order"
    /\ probe.pc = "call"
    /\ IF probe.wallet_private_key = None
       THEN probe' = [probe EXCEPT !.pc = "done",
                         !.result = Some(Err("Polymarket wallet private key not configured"))]
       ELSE LET blockchain == blockchain_with_wallet(probe.rpc_ok, probe.wallet_private_key[1])
            IN  IF blockchain.ok
                THEN probe' = [probe EXCEPT !.pc = "blockchain"]
                ELSE probe' = [probe EXCEPT !.pc = "done", !.result = Some(blockchain)]
    /\ UnchangedLoop

\* The match on place_order_via_blockchain: the hash is returned, None
\* becomes an error, and an error falls through to the CLOB API.
PlaceOrderViaBlockchain ==
    /\ probe.kind = "place_order"
    /\ probe.pc = "blockchain"
    /\ LET answer == place_order_via_blockchain(probe.wallet_private_key, probe.args)
       IN  IF answer.ok /\ answer.val # None
           THEN probe' = [probe EXCEPT !.pc = "done", !.result = Some(answer)]
           ELSE IF answer.ok
           THEN probe' = [probe EXCEPT !.pc = "done",
                             !.result = Some(Err("Order placement failed"))]
           ELSE probe' = [probe EXCEPT !.pc = "clob"]
    /\ UnchangedLoop

\* The fallback: what place_order_via_clob returns is what place_order returns.
PlaceOrderViaClob ==
    /\ probe.kind = "place_order"
    /\ probe.pc = "clob"
    /\ probe' = [probe EXCEPT !.pc = "done",
                     !.result = Some(place_order_via_clob(probe.wallet_private_key, probe.args))]
    /\ UnchangedLoop

\* An executor calls place_order again, for any order.
PlaceOrderAgain ==
    /\ probe.kind = "place_order"
    /\ probe.pc = "done"
    /\ \E args \in PlaceOrderArgs :
          probe' = [probe EXCEPT !.pc = "call", !.args = args, !.result = None]
    /\ UnchangedLoop

NextPlaceOrder ==
    \/ PlaceOrderEnter
    \/ PlaceOrderViaBlockchain
    \/ PlaceOrderViaClob
    \/ PlaceOrderAgain

SpecPlaceOrder == InitPlaceOrder /\ [][NextPlaceOrder]_vars

\* The process runs on: a call that was started is carried through, and
\* the executors keep placing orders.
FairPlaceOrder == SpecPlaceOrder /\ WF_vars(NextPlaceOrder)

---------------------------------------------------------------------------
(* The service loop started without POLYMARKET_WALLET_PRIVATE_KEY: every   *)
(* Polymarket place_order returns at its first ?                           *)

\* place_order with wallet_private_key None.
PmPlaceOrderNoWallet == { Err("Polymarket wallet private key not configured") }

NextNoWallet ==
    \/ ScanTick
    \/ \E i \in DOMAIN trades, venue \in {"pm", "kalshi"} : IssueLeg(i, venue)
    \/ \E i \in DOMAIN trades : CompleteLegWith(i, "pm", PmPlaceOrderNoWallet)
    \/ \E i \in DOMAIN trades : CompleteLegWith(i, "kalshi", KalshiPlaceOrderResults)
    \/ \E i \in DOMAIN trades : Evaluate(i)
    \/ CrossJoined
    \/ \E j \in DOMAIN gtrades : GabagoolIssue(j)
    \/ \E j \in DOMAIN gtrades : GabagoolFail(j)
    \/ GabagoolJoined

SpecNoWallet == Init /\ [][NextNoWallet]_vars

---------------------------------------------------------------------------
(* The two tokio Mutexes, the ledger's and the hedge map's, under any      *)
(* interleaving of the calls that take them                                *)

Locks == {"ledger", "hedge"}

LockTasks == {"gabagool_a", "gabagool_b", "cross", "balance", "settlement"}

Lock(l) == [op |-> "lock", lock |-> l]

Unlock(l) == [op |-> "unlock", lock |-> l]

\* An execute_trade that keeps the hedge map locked while it adds to the ledger.
execute_trade_locks_nested ==
    <<Lock("hedge"), Lock("ledger"), Unlock("ledger"), Unlock("hedge")>>

\* GabagoolExecutor::execute_trade after place_order: gabagool_positions is
\* locked, updated and dropped, then the tracker is locked for add_position.
execute_trade_locks ==
    <<Lock("hedge"), Unlock("hedge"), Lock("ledger"), Unlock("ledger")>>

\* TradeExecutor::execute_arbitrage after the join: the tracker alone.
execute_arbitrage_locks == <<Lock("ledger"), Unlock("ledger")>>

\* GabagoolExecutor::get_position_balance: the hedge map alone.
get_position_balance_locks == <<Lock("hedge"), Unlock("hedge")>>

\* SettlementChecker::check_settlements: the ledger alone, around the reads
\* and around each settlement it applies.
check_settlements_locks == <<Lock("ledger"), Unlock("ledger")>>

LockProgram(t) ==
    CASE t \in {"gabagool_a", "gabagool_b"} -> execute_trade_locks
      [] t = "cross" -> execute_arbitrage_locks
      [] t = "balance" -> get_position_balance_locks
      [] OTHER -> check_settlements_locks

InitLocks ==
    /\ LoopInit
    /\ probe = [kind |-> "locks",
                pc |-> [t \in LockTasks |-> 1],
                waiting |-> [t \in LockTasks |-> FALSE],
                queue |-> [l \in Locks |-> <<>>],
                holder |-> [l \in Locks |-> None]]

AtOp(t, op) ==
    /\ probe.kind = "locks"
    /\ probe.pc[t] <= Len(LockProgram(t))
    /\ LockProgram(t)[probe.pc[t]].op = op

\* lock().await is polled: the task joins the queue of the Mutex.
LockRequest(t) ==
    /\ AtOp(t, "lock")
    /\ ~probe.waiting[t]
    /\ probe' = [probe EXCEPT
            !.queue[LockProgram(t)[probe.pc[t]].lock] = Append(@, t),
            !.waiting[t] = TRUE]
    /\ UnchangedLoop

\* The Mutex is free and the task is first in its queue: the guard is handed over.
LockGrant(t) ==
    /\ AtOp(t, "lock")
    /\ probe.waiting[t]
    /\ LET l == LockProgram(t)[probe.pc[t]].lock
       IN  /\ probe.holder[l] = None
           /\ Head(probe.queue[l]) = t
           /\ probe' = [probe EXCEPT
                   !.holder[l] = Some(t),
                   !.queue[l] = Tail(@),
                   !.waiting[t] = FALSE,
                   !.pc[t] = @ + 1]
    /\ UnchangedLoop

\* The guard is dropped.
LockRelease(t) ==
    /\ AtOp(t, "unlock")
    /\ probe' = [probe EXCEPT
            !.holder[LockProgram(t)[probe.pc[t]].lock] = None,
            !.pc[t] = @ + 1]
    /\ UnchangedLoop

\* The call returns; the task is called again later.
LockReturn(t) ==
    /\ probe.kind = "locks"
    /\ probe.pc[t] > Len(LockProgram(t))
    /\ probe' = [probe EXCEPT !.pc[t] = 1]
    /\ UnchangedLoop

NextLocks ==
    \/ \E t \in LockTasks : LockRequest(t)
    \/ \E t \in LockTasks : LockGrant(t)
    \/ \E t \in LockTasks : LockRelease(t)
    \/ \E t \in LockTasks : LockReturn(t)

SpecLocks == InitLocks /\ [][NextLocks]_vars

\* A task that holds a guard runs on to the drop (no await lies between),
\* and a free Mutex hands its guard to the first waiter.
FairLocks ==
    /\ SpecLocks
    /\ \A t \in LockTasks : WF_vars(LockGrant(t)) /\ WF_vars(LockRelease(t))

---------------------------------------------------------------------------
(* Properties of execute_arbitrage *)

Venues == {"pm", "kalshi"}

Other(venue) == IF venue = "pm" THEN "kalshi" ELSE "pm"

\* The order id a TradeResult carries for a venue.
OrderIdOf(r, venue) == IF venue = "pm" THEN r.polymarket_order_id ELSE r.kalshi_order_id

\* The venues the error of a TradeResult names.
ErrorVenues(r) ==
    IF IsSome(r.error) THEN { Unwrap(r.error)[n].venue : n \in DOMAIN Unwrap(r.error) } ELSE {}

\* The step in which execute_arbitrage number i returns its TradeResult.
Returns(i) ==
    /\ phase = "cross"
    /\ trades[i].result = None
    /\ i \in DOMAIN trades'
    /\ IsSome(trades'[i].result)

\* C1: the TradeResult of execute_arbitrage has success = true exactly when
\* the place_order of both legs completed without error.
C1_SuccessIffBothLegs ==
    \A i \in DOMAIN trades :
        IsSome(trades[i].result) =>
            (Unwrap(trades[i].result).success
                <=> (trades[i].pm.po.ok /\ trades[i].kalshi.po.ok))

C1_Witness ==
    \E i \in DOMAIN trades :
        /\ IsSome(trades[i].result)
        /\ Unwrap(trades[i].result).success
        /\ trades[i].pm.po.ok /\ trades[i].kalshi.po.ok

C3_BothLegsIssuedAndJoined ==
    \A i \in DOMAIN trades :
        /\ \A v \in Venues :
              /\ trades[i].issued[v] <= 1
              /\ trades[i].issued[v] = (IF trades[i][v].st = "pending" THEN 0 ELSE 1)
              /\ (phase = "cross" /\ trades[i][v].st = "pending") => ENABLED IssueLeg(i, v)
        /\ IsSome(trades[i].result) =>
              /\ trades[i].pm.st = "done" /\ trades[i].kalshi.st = "done"
              /\ trades[i].issued = [pm |-> 1, kalshi |-> 1]

C3_Witness ==
    \E i \in DOMAIN trades :
        /\ trades[i].pm.st = "done" /\ ~trades[i].pm.po.ok
        /\ trades[i].kalshi.st = "pending"
        /\ ENABLED IssueLeg(i, "kalshi")

\* A ledger entry for the order of a leg.
Recorded(event_id, platform, order_id) ==
    \E q \in get_all_positions(positions) :
        q.event_id = event_id /\ q.platform = platform /\ q.order_id = order_id

\* C4: once a trade has returned, every leg whose order was placed has a
\* Position in the ledger, in every outcome of the trade.
C4_EveryPlacedOrderRecorded ==
    \A i \in DOMAIN trades :
        IsSome(trades[i].result) =>
            /\ trades[i].pm.po.ok =>
                  Recorded(cross_platform_opps[i].pm_event, "polymarket", trades[i].pm.res.val)
            /\ trades[i].kalshi.po.ok =>
                  Recorded(cross_platform_opps[i].kalshi_event, "kalshi", trades[i].kalshi.res.val)

\* C5: a fully successful execute_arbitrage appends exactly two Positions, one
\* for each venue, each Open with the side, price and order id of its leg, and
\* changes no entry the ledger already held.
C5_FullSuccessAppendsTwo ==
    [][ \A i \in DOMAIN trades :
          (Returns(i) /\ Unwrap(trades'[i].result).success) =>
              LET new == DOMAIN positions' \ DOMAIN positions
                  o == cross_platform_opps[i].opportunity
              IN  /\ Cardinality(new) = 2
                  /\ \A id \in DOMAIN positions : positions'[id] = positions[id]
                  /\ \E a \in new :
                        /\ positions'[a].platform = "polymarket"
                        /\ positions'[a].status = "Open"
                        /\ positions'[a].outcome = o.polymarket_action[2]
                        /\ positions'[a].price = o.polymarket_action[3]
                        /\ positions'[a].order_id = trades[i].pm.res.val
                  /\ \E b \in new :
                        /\ positions'[b].platform = "kalshi"
                        /\ positions'[b].status = "Open"
                        /\ positions'[b].outcome = o.kalshi_action[2]
                        /\ positions'[b].price = o.kalshi_action[3]
                        /\ positions'[b].order_id = trades[i].kalshi.res.val ]_vars

\* C6: the return of a partially failed execute_arbitrage cancels nothing,
\* places no further order and leaves both ledgers as they were: its only
\* effect is the failed TradeResult.
C6_NoUnwind ==
    [][ \A i \in DOMAIN trades :
          (Returns(i) /\ trades[i].pm.po.ok # trades[i].kalshi.po.ok) =>
              /\ cancels' = cancels
              /\ trades'[i].issued = trades[i].issued
              /\ trades'[i].pm = trades[i].pm /\ trades'[i].kalshi = trades[i].kalshi
              /\ positions' = positions
              /\ gabagool_positions' = gabagool_positions
              /\ ~Unwrap(trades'[i].result).success ]_vars

C6_Witness ==
    \E i \in DOMAIN trades :
        /\ IsSome(trades[i].result)
        /\ ~trades[i].pm.po.ok
        /\ trades[i].kalshi.po = Ok(Some("kalshi_order"))
        /\ Unwrap(trades[i].result).kalshi_order_id = Some("kalshi_order")
        /\ cancels = 0

---------------------------------------------------------------------------
(* Properties of the detectors and of the matcher *)

\* C7: the detector returns an opportunity exactly when the cheaper of
\* yes_A + no_B and no_A + yes_B is strictly below 1 - threshold; the
\* opportunity is one of these two combinations, its net profit is 1 minus
\* the sum of its two prices and is positive.  With yes_A = 0.40 and
\* no_B = 0.55 the net profit is 0.05 at threshold 0.02, and there is no
\* opportunity at threshold 0.06.
C7_DetectorThreshold ==
    probe.kind = "check_arbitrage_done" =>
        LET a == probe.pm_prices.yes + probe.kalshi_prices.no
            b == probe.pm_prices.no + probe.kalshi_prices.yes
            out == probe.out
        IN  /\ out.found <=> (Min(a, b) < 100 - probe.threshold)
            /\ out.found =>
                  /\ \/ /\ out.polymarket_action = <<"BUY", "YES", probe.pm_prices.yes>>
                        /\ out.kalshi_action = <<"BUY", "NO", probe.kalshi_prices.no>>
                     \/ /\ out.polymarket_action = <<"BUY", "NO", probe.pm_prices.no>>
                        /\ out.kalshi_action = <<"BUY", "YES", probe.kalshi_prices.yes>>
                  /\ out.polymarket_action[3] + out.kalshi_action[3] < 100 - probe.threshold
                  /\ out.net_profit = 100 - (out.polymarket_action[3] + out.kalshi_action[3])
                  /\ out.net_profit > 0
            /\ (probe.pm_prices.yes = 40 /\ probe.kalshi_prices.no = 55 /\ b >= a) =>
                  /\ probe.threshold = 2 => (out.found /\ out.net_profit = 5)
                  /\ probe.threshold = 6 => ~out.found

C7_Witness ==
    /\ probe.kind = "check_arbitrage_done"
    /\ probe.pm_prices.yes = 40 /\ probe.kalshi_prices.no = 55
    /\ probe.pm_prices.no = 60 /\ probe.kalshi_prices.yes = 45
    /\ probe.threshold = 2
    /\ probe.out.found /\ probe.out.net_profit = 5

\* No event of either venue occurs in two entries of ms.
OneToOne(ms) ==
    \A m, n \in DOMAIN ms :
        m # n => (ms[m].pm_event # ms[n].pm_event /\ ms[m].kalshi_event # ms[n].kalshi_event)

\* C8: the matcher pairs each event of either venue at most once, so a scan
\* emits at most one cross-venue opportunity per event, each for a matched pair.
C8_OneOpportunityPerEvent ==
    probe.kind = "scan_done" =>
        /\ OneToOne(probe.matches)
        /\ OneToOne(probe.opps)
        /\ \A n \in DOMAIN probe.opps :
              \E m \in DOMAIN probe.matches :
                  /\ probe.matches[m].pm_event = probe.opps[n].pm_event
                  /\ probe.matches[m].kalshi_event = probe.opps[n].kalshi_event

C8_Witness ==
    /\ probe.kind = "scan_done"
    /\ \A x \in {"p1", "p4"} \X {"k1", "k4"} : probe.sim[x] >= similarity_threshold
    /\ Len(probe.matches) = 2
    /\ Len(probe.opps) = 2

\* Pair cost below 1 on what the executor holds of event e.
HeldLocked(e) ==
    LET bal == get_position_balance(gabagool_positions, e)
        min_qty == Min(bal[1], bal[3])
    IN  min_qty > 0 /\ bal[2] + bal[4] < min_qty

\* C9: the profit_locked of a Gabagool opportunity is true exactly when the
\* position held at the scan has min(yes_qty, no_qty) > 0 and pair cost below
\* 1, and false when either held quantity is 0.  (Until the trade of the
\* opportunity completes, the held position is the one the scan read.)
C9_ProfitLockedFromHeld ==
    \A n \in DOMAIN gabagool_opps :
        gtrades[n] # "ok" =>
            LET bal == get_position_balance(gabagool_positions, gabagool_opps[n].event)
            IN  /\ gabagool_opps[n].profit_locked <=> HeldLocked(gabagool_opps[n].event)
                /\ (bal[1] = 0 \/ bal[3] = 0) => ~gabagool_opps[n].profit_locked

C9_Witness ==
    \E n \in DOMAIN gabagool_opps :
        /\ gtrades[n] # "ok"
        /\ gabagool_opps[n].profit_locked
        /\ HeldLocked(gabagool_opps[n].event)

---------------------------------------------------------------------------
(* Properties of the ledger *)

\* C10: after any sequence of adds and settlements the ledger lists exactly
\* the positions added: as many entries as there were adds, none replaced.
C10_ListAllIsEveryAdd ==
    Cardinality(get_all_positions(positions)) = numAdded

\* C11: applying the same settlement (same id, same won flag, same payout) a
\* second time leaves status, payout and profit of the position as they were
\* after the first.
C11_SettlementIdempotent ==
    \A id \in DOMAIN positions : \A won \in BOOLEAN, payout \in Payouts :
        LET once == update_position_settlement(positions, id, won, payout)
            twice == update_position_settlement(once, id, won, payout)
        IN  /\ twice[id].status = once[id].status
            /\ twice[id].payout = once[id].payout
            /\ twice[id].profit = once[id].profit
            /\ DOMAIN twice = DOMAIN once

C11_Witness ==
    \E id \in DOMAIN positions :
        /\ positions[id].status = "Lost"
        /\ positions[id].profit = Some(0 - positions[id].cost)
        /\ update_position_settlement(positions, id, FALSE, positions[id].payout)[id]
              = positions[id]

\* C12: a settled position's profit comes from the position alone: quantity
\* x 1 - cost when Won, -cost when Lost, whatever payout was passed; and the
\* profit update_position_settlement returns is the one it stores.
C12_ProfitFromPosition ==
    /\ \A q \in get_all_positions(positions) :
          /\ q.status = "Won" => q.profit = Some(q.amount * 1 - q.cost)
          /\ q.status = "Lost" => q.profit = Some(0 - q.cost)
          /\ q.status = "Open" => q.profit = None
    /\ \A id \in DOMAIN positions : \A won \in BOOLEAN, payout \in Payouts :
          LET after == update_position_settlement(positions, id, won, payout)
              ret == update_position_settlement_returns(positions, id, won, payout)
          IN  /\ after[id].payout = payout
              /\ after[id].profit = Some(IF won THEN positions[id].amount - positions[id].cost
                                         ELSE 0 - positions[id].cost)
              /\ ret = after[id].profit

C12_Witness ==
    \E q \in get_all_positions(positions) :
        /\ q.status = "Won"
        /\ q.payout = Some(0)
        /\ q.profit = Some(150)

---------------------------------------------------------------------------
(* Properties of the service loop *)

\* The dollars the hedge map holds for event e.
HedgeCost(e) ==
    IF e \in DOMAIN gabagool_positions
    THEN gabagool_positions[e].yes_cost + gabagool_positions[e].no_cost
    ELSE 0

\* The ledger entries of event e.
LedgerOf(e) == { q \in get_all_positions(positions) : q.event_id = e }

\* Every add_position so far is in the ledger, and the trades of this cycle
\* are there with their event and side.
LedgerHoldsAll ==
    /\ Cardinality(DOMAIN positions) = numAdded
    /\ \A j \in DOMAIN gabagool_opps :
          \E q \in LedgerOf(gabagool_opps[j].event) :
              /\ q.outcome = gabagool_opps[j].cheap_side
              /\ q.cost = trade_amount

\* Each event's hedge position is the sum of the buys made on it: one
\* trade_amount per ledger entry that was added for it.
HedgeIsSumOfBuys ==
    /\ \A j \in DOMAIN gabagool_opps : HedgeCost(gabagool_opps[j].event) >= trade_amount
    /\ HedgeCost("p1") + HedgeCost("p4") = trade_amount * numAdded

AllTradesSucceeded ==
    /\ phase = "gabagool"
    /\ Len(gtrades) >= 2
    /\ \A j \in DOMAIN gtrades : gtrades[j] = "ok"

\* C13: no mutation of the ledger or of the hedge-position map is lost: when
\* the N concurrent trade executions of a cycle have all succeeded, the
\* ledger holds the positions of all N and each event's hedge position is the
\* sum of all buys.
C13_NoMutationLost == AllTradesSucceeded => LedgerHoldsAll /\ HedgeIsSumOfBuys

\* C14: scan cycles never overlap: while a cycle is running (its scans done,
\* its trades being executed) the loop takes no new scan tick, and when the
\* loop is back at select! no trade of a cycle is still executing.
C14_CyclesNeverOverlap ==
    /\ phase # "idle" => ~ENABLED ScanTick
    /\ phase = "idle" => trades = <<>> /\ gtrades = <<>>

\* A tick of a further cycle is due to come while a trade of the running
\* cycle is waiting for its venue.
C14_Witness ==
    /\ cycles < MaxCycles
    /\ \/ phase = "cross" /\ \E i \in DOMAIN trades : trades[i].pm.st = "inflight"
       \/ phase = "gabagool" /\ \E j \in DOMAIN gtrades : gtrades[j] = "inflight"
    /\ ~ENABLED ScanTick

\* C15: the settlement pass is driven independently of the scanner: a pass
\* that is due runs side by side with a scan cycle and is not held back
\* until the cycle in progress, trade executions included, has finished.
C15_SettlementNotHeldBack == settlement_due => ENABLED SettlementArm

\* C16: a failed event fetch on one venue counts as an empty list: the cycle
\* is run all the same, both scans get the other venue's events as fetched,
\* and the loop goes on to its next tick.
C16_FailedFetchIsEmptyList ==
    /\ fetched # None =>
          LET f == fetched[1]
          IN  /\ cycles >= 1
              /\ f.scanned.pm = (IF f.pm.ok THEN f.pm.val ELSE <<>>)
              /\ f.scanned.kalshi = (IF f.kalshi.ok THEN f.kalshi.val ELSE <<>>)
              /\ phase = "gabagool" => f.pm.ok /\ gabagool_opps # <<>>
    /\ phase = "idle" /\ cycles < MaxHedgeCycles => ENABLED ScanTickDegraded

\* The second cycle in a row in which Kalshi's fetch failed: Polymarket's
\* events were scanned and the cycle trades on one of them.
C16_Witness ==
    /\ fetched # None
    /\ ~fetched[1].kalshi.ok
    /\ fetched[1].scanned.pm = pm_events
    /\ fetched[1].scanned.kalshi = <<>>
    /\ cycles = 2
    /\ phase = "gabagool"
    /\ \E j \in DOMAIN gabagool_opps : gabagool_opps[j].event = "p1"

\* The filtered set of a venue in the latest cycle is empty.
FilteredEmpty(venue) == filter_events(fetched[1].scanned[venue]) = <<>>

\* C17 as stated: when either venue's filtered set is empty, detection is
\* skipped altogether: neither detector runs, no price is fetched and no
\* opportunity is emitted.
C17_EitherEmptySkipsAll ==
    (fetched # None /\ (FilteredEmpty("pm") \/ FilteredEmpty("kalshi"))) =>
        /\ fetched[1].priced.cross = {}
        /\ fetched[1].priced.gabagool = {}
        /\ cross_platform_opps = <<>>
        /\ gabagool_opps = <<>>

\* C17 amended: when either venue's filtered set is empty the cross-venue
\* scan fetches no price and emits nothing; the Gabagool scan is skipped
\* when Polymarket's filtered set is empty, and with Kalshi's set alone
\* empty it fetches the price of every filtered Polymarket event.
C17_SkipPerScan ==
    fetched # None =>
        /\ FilteredEmpty("pm") \/ FilteredEmpty("kalshi") =>
              fetched[1].priced.cross = {} /\ cross_platform_opps = <<>>
        /\ FilteredEmpty("pm") =>
              fetched[1].priced.gabagool = {} /\ gabagool_opps = <<>>
        /\ ~FilteredEmpty("pm") =>
              fetched[1].priced.gabagool = Range(filter_events(fetched[1].scanned.pm))

\* Kalshi's filtered set is empty, Polymarket's is not: no cross-venue price
\* is fetched and the Gabagool scan emits an opportunity.
C17_Witness ==
    /\ fetched # None
    /\ FilteredEmpty("kalshi")
    /\ ~FilteredEmpty("pm")
    /\ fetched[1].priced.cross = {}
    /\ fetched[1].priced.gabagool = {"p1"}
    /\ gabagool_opps # <<>>

---------------------------------------------------------------------------
(* Properties of the scans *)

C19_FailedFetchSkipsLeg ==
    probe.kind = "quotes_done" =>
        /\ ~probe.pm.ok \/ ~probe.kalshi.ok => probe.cross_opps = <<>>
        /\ ~probe.gabagool.ok => probe.gabagool_opps = <<>>

\* The quotes the scans of the probe worked on.
PmLiquidity == unwrap_or_default(probe.pm).liquidity
KalshiLiquidity == unwrap_or_default(probe.kalshi).liquidity
GabagoolLiquidity == unwrap_or_default(probe.gabagool).liquidity

\* C20: every cross-venue opportunity emitted comes from a pair whose two
\* quotes have liquidity at least min_liquidity, every Gabagool opportunity
\* from a quote with liquidity at least min_liquidity; a liquidity exactly
\* equal to the minimum is accepted: the detector's finding is emitted.
C20_LiquidityFloor ==
    probe.kind = "quotes_done" =>
        /\ probe.cross_opps # <<>> =>
              PmLiquidity >= probe.floor /\ KalshiLiquidity >= probe.floor
        /\ probe.gabagool_opps # <<>> => GabagoolLiquidity >= probe.floor
        /\ ( /\ PmLiquidity >= probe.floor
             /\ KalshiLiquidity >= probe.floor
             /\ check_arbitrage(unwrap_or_default(probe.pm), unwrap_or_default(probe.kalshi),
                                min_profit_threshold).found )
           => Len(probe.cross_opps) = 1
        /\ ( /\ GabagoolLiquidity >= probe.floor
             /\ check_opportunity("p1", unwrap_or_default(probe.gabagool), 0, 0, 0, 0,
                                  min_profit_threshold).found )
           => Len(probe.gabagool_opps) = 1

\* The three quotes have exactly the minimum liquidity of main and both
\* scans emit an opportunity.
C20_Witness ==
    /\ probe.kind = "quotes_done"
    /\ probe.floor = min_liquidity
    /\ probe.pm.ok /\ probe.kalshi.ok /\ probe.gabagool.ok
    /\ PmLiquidity = min_liquidity
    /\ KalshiLiquidity = min_liquidity
    /\ GabagoolLiquidity = min_liquidity
    /\ Len(probe.cross_opps) = 1
    /\ Len(probe.gabagool_opps) = 1

---------------------------------------------------------------------------
(* Properties of run_continuous *)

\* One scan a tick; while nothing is returned every batch so far was
\* empty; what is returned is the batch of the latest scan, it is not
\* empty, and every scan before it gave an empty batch.
ContinuousSafe ==
    probe.kind = "continuous" =>
        /\ Len(probe.batches) = (IF probe.pc = "scan" THEN probe.ticks - 1 ELSE probe.ticks)
        /\ probe.returned = None /\ probe.pc = "tick" =>
              \A n \in DOMAIN probe.batches : probe.batches[n] = <<>>
        /\ probe.returned # None =>
              /\ probe.pc = "returned"
              /\ probe.returned[1] = probe.batches[Len(probe.batches)]
              /\ probe.returned[1] # <<>>
              /\ \A n \in 1..(Len(probe.batches) - 1) : probe.batches[n] = <<>>

\* A scan has produced at least one opportunity.
ContinuousFound ==
    /\ probe.kind = "continuous"
    /\ probe.pc = "scanned"
    /\ probe.batches[Len(probe.batches)] # <<>>

\* C21: run_continuous scans once per tick, keeps looping while the scans
\* produce no opportunity and returns at the first scan that produces one,
\* with exactly that scan's batch: never an empty batch; and once a scan
\* has produced an opportunity it returns.
C21_ReturnsFirstBatch ==
    /\ []ContinuousSafe
    /\ ContinuousFound ~> (probe.returned # None)

\* Two scans found nothing and the third scan's batch is returned.
C21_Witness ==
    /\ probe.kind = "continuous"
    /\ probe.ticks = 3
    /\ probe.batches[1] = <<>>
    /\ probe.batches[2] = <<>>
    /\ probe.returned # None
    /\ probe.returned[1] = probe.batches[3]
    /\ Len(probe.returned[1]) >= 1

\* Every opportunity of the running cycle has one executor call of its own,
\* and no leg of a call is issued twice.
DispatchedOnce ==
    /\ Len(trades) = Len(cross_platform_opps)
    /\ Len(gtrades) = Len(gabagool_opps)
    /\ \A i \in DOMAIN trades : \A venue \in {"pm", "kalshi"} :
          /\ trades[i].issued[venue] <= 1
          /\ trades[i].result # None => trades[i].issued[venue] = 1
    /\ phase = "gabagool" => trades = <<>>
    /\ phase = "idle" => cross_platform_opps = <<>> /\ gabagool_opps = <<>>

\* The calls of a cycle are given up only when each has returned, and a
\* tick is taken only when none is left.
CompletedBeforeNext ==
    /\ trades # <<>> /\ trades' = <<>> =>
          \A i \in DOMAIN trades : trades[i].result # None
    /\ gtrades # <<>> /\ gtrades' = <<>> =>
          \A j \in DOMAIN gtrades : gtrades[j] \in {"ok", "err"}
    /\ cycles' # cycles =>
          /\ trades = <<>> /\ gtrades = <<>>
          /\ Len(trades') = Len(cross_platform_opps')
          /\ Len(gtrades') = Len(gabagool_opps')

\* C22: in the service loop every opportunity a cycle's scans emit is handed
\* to its executor exactly once in that cycle (cross-venue to the Trade
\* Executor, Gabagool to the Gabagool Executor), and all of them have
\* completed before the next cycle starts.
C22_DispatchedOnceAndJoined == []DispatchedOnce /\ [][CompletedBeforeNext]_vars

\* The second cycle starts with a cross-venue and a Gabagool opportunity,
\* after a first cycle whose trades were executed.
C22_Witness ==
    /\ cycles = 2
    /\ phase = "cross"
    /\ Len(trades) = 1
    /\ Len(gtrades) = 1
    /\ gtrades[1] = "pending"
    /\ numAdded >= 1

---------------------------------------------------------------------------
(* Properties of the Event Filter *)

\* sub is got from seq by leaving entries out.
RECURSIVE IsSubsequence(_, _)
IsSubsequence(sub, seq) ==
    IF sub = <<>> THEN TRUE
    ELSE IF seq = <<>> THEN FALSE
    ELSE IF Head(sub) = Head(seq) THEN IsSubsequence(Tail(sub), Tail(seq))
    ELSE IsSubsequence(sub, Tail(seq))

\* min_time <= resolution_time - now <= max_time, in minutes.
InWindow(date) ==
    /\ IsSome(date)
    /\ min_minutes_until_resolution <= Unwrap(date)
    /\ Unwrap(date) <= 60 * max_hours_until_resolution

\* C23: the Event Filter accepts an event only if it has a resolution
\* timestamp with min_time <= resolution_time - now <= max_time, both bounds
\* inclusive (an event of an allowed category at either bound is accepted);
\* an event with no resolution timestamp is rejected whatever its category;
\* the output is a subsequence of the input.
C23_FilterWindow ==
    probe.kind = "filter_done" =>
        /\ \A e \in Range(probe.filtered) : InWindow(probe.attr[e].resolution_date)
        /\ \A e \in Range(probe.events) :
              /\ probe.attr[e].resolution_date = None => e \notin Range(probe.filtered)
              /\ ( /\ InWindow(probe.attr[e].resolution_date)
                   /\ matches_category_of(probe.attr[e].category, probe.attr[e].hit) )
                 => e \in Range(probe.filtered)
        /\ IsSubsequence(probe.filtered, probe.events)

\* An event exactly at the lower bound and one exactly at the upper bound
\* are both accepted, in the order of the input.
C23_Witness ==
    /\ probe.kind = "filter_done"
    /\ probe.events = <<"e2", "e1">>
    /\ probe.attr["e2"].resolution_date = Some(min_minutes_until_resolution)
    /\ probe.attr["e1"].resolution_date = Some(60 * max_hours_until_resolution)
    /\ probe.filtered = <<"e2", "e1">>

---------------------------------------------------------------------------
(* Properties of execute_trade *)

\* The hedge position of event e, zeros when there is none yet.
HedgeOf(gpos, e) == IF e \in DOMAIN gpos THEN gpos[e] ELSE GabagoolPosition(0, 0, 0, 0)

\* The step in which execute_trade j returns Ok(true) changes the hedge map
\* as a buy of trade_amount on the cheap side of its event.
HedgeGrowsByBuy(j) ==
    LET opp == gabagool_opps[j]
        old == HedgeOf(gabagool_positions, opp.event)
        new == HedgeOf(gabagool_positions', opp.event)
        shares == (trade_amount * 100) \div opp.cheap_price
    IN  /\ opp.event \in DOMAIN gabagool_positions'
        /\ opp.cheap_side = "YES" =>
              /\ new.yes_qty = old.yes_qty + shares
              /\ new.yes_cost = old.yes_cost + trade_amount
              /\ new.no_qty = old.no_qty
              /\ new.no_cost = old.no_cost
        /\ opp.cheap_side = "NO" =>
              /\ new.no_qty = old.no_qty + shares
              /\ new.no_cost = old.no_cost + trade_amount
              /\ new.yes_qty = old.yes_qty
              /\ new.yes_cost = old.yes_cost
        /\ DOMAIN gabagool_positions' = DOMAIN gabagool_positions \cup {opp.event}
        /\ \A e \in DOMAIN gabagool_positions :
              e # opp.event => gabagool_positions'[e] = gabagool_positions[e]

ExecuteTradeFrame ==
    /\ \A j \in DOMAIN gtrades :
          (gtrades[j] = "inflight" /\ j \in DOMAIN gtrades' /\ gtrades'[j] = "ok")
              => HedgeGrowsByBuy(j)
    /\ gabagool_positions' # gabagool_positions =>
          \E j \in DOMAIN gtrades :
              gtrades[j] = "inflight" /\ j \in DOMAIN gtrades' /\ gtrades'[j] = "ok"

\* C24: after a Gabagool place_order that returns without error, with or
\* without an order id, the event's hedge position (created with zeros on
\* the first trade) has the cheap side's quantity grown by amount /
\* cheap_price and its cost by amount, the other side and every other
\* event's hedge position are unchanged, and execute_trade returns true.
C24_HedgeUpdatedOnOk == [][ExecuteTradeFrame]_vars

\* A buy that came back without an order id is in the ledger and in the
\* hedge position of its event, on top of an earlier buy, while the other
\* market holds its own.
C24_Witness ==
    /\ \E q \in get_all_positions(positions) : q.order_id = None /\ q.event_id = "p1"
    /\ "p1" \in DOMAIN gabagool_positions
    /\ "p4" \in DOMAIN gabagool_positions
    /\ gabagool_positions["p1"].yes_cost + gabagool_positions["p1"].no_cost = 2 * trade_amount
    /\ \E j \in DOMAIN gtrades : gtrades[j] = "ok" /\ gabagool_opps[j].event = "p1"

---------------------------------------------------------------------------
(* Properties of the settlement pass *)

\* The findings of a pass with every failed query read as 'not resolved'.
ErrorsAsOpen(found) ==
    [ id \in DOMAIN found |-> IF found[id] = "error" THEN "open" ELSE found[id] ]

\* C25: in a settlement pass 'not yet resolved' and a failed venue query are
\* treated alike: the position stays Open with no field changed, the pass
\* goes on to the other positions, and the position is among the Open ones
\* the next pass examines.
C25_UnresolvedAndErrorAlike ==
    \A found \in [DOMAIN positions -> Resolutions], payout \in Payouts :
        LET after == check_settlements(positions, found, payout)
        IN  /\ after = check_settlements(positions, ErrorsAsOpen(found), payout)
            /\ \A id \in DOMAIN positions :
                  /\ found[id] \in {"open", "error"} => after[id] = positions[id]
                  /\ (found[id] \in {"open", "error"} /\ positions[id].status = "Open")
                        => after[id] \in get_open_positions(after)
                  /\ (found[id] \in {"won", "lost"} /\ positions[id].status = "Open")
                        => after[id].status = (IF found[id] = "won" THEN "Won" ELSE "Lost")

\* A pass has settled one position and left another Open; a pass whose
\* query for the Open one fails leaves it as it is, among the Open ones,
\* and one that finds it resolved settles it.
C25_Witness ==
    \E b, c \in DOMAIN positions :
        /\ positions[c].status = "Won"
        /\ positions[b].status = "Open"
        /\ LET failed == [ id \in DOMAIN positions |-> IF id = b THEN "error" ELSE "lost" ]
               after == check_settlements(positions, failed, None)
               resolved == [ id \in DOMAIN positions |-> "lost" ]
           IN  /\ after = positions
               /\ after[b] \in get_open_positions(after)
               /\ check_settlements(after, resolved, None)[b].status = "Lost"

\* The position under id is Open and its market is resolved.
OpenAndResolved(id) ==
    /\ id \in DOMAIN positions
    /\ positions[id].status = "Open"
    /\ markets[positions[id].event_id] # "open"

---------------------------------------------------------------------------
(* C27 *)

\* Nothing of the loop has happened: no scan tick, no settlement pass, no
\* order.
LoopUntouched ==
    /\ cycles = 0 /\ phase = "idle" /\ ~settlement_due
    /\ trades = <<>> /\ gtrades = <<>> /\ fetched = None
    /\ positions = <<>> /\ gabagool_positions = <<>> /\ numAdded = 0

KalshiCredentialMissing ==
    \/ probe.KALSHI_API_KEY \in {None, Some("")}
    \/ probe.KALSHI_API_SECRET \in {None, Some("")}

StartupSafe ==
    /\ KalshiCredentialMissing => ~InLoop /\ LoopUntouched
    /\ probe.pc = "failed" => KalshiCredentialMissing /\ "error credentials" \in Range(probe.log)
    /\ ~InLoop => LoopUntouched

\* C27: with the Kalshi API key or secret unset or empty, main returns its
\* error and no scan tick, settlement pass or order ever happens; it fails
\* for no other reason, so with both set and the Polymarket wallet key unset
\* the process enters the loop and scans.
C27_KalshiCredentialsRequired ==
    /\ []StartupSafe
    /\ (probe.wallet_key = None /\ ~KalshiCredentialMissing) ~> (cycles > 0)

C27_Witness ==
    /\ probe.kind = "startup"
    /\ probe.wallet_key = None
    /\ "warn wallet" \in Range(probe.log)
    /\ InLoop
    /\ cycles > 0
    /\ numAdded > 0

---------------------------------------------------------------------------
(* C28 *)

\* The age of the entry of key at time now; no entry is older than any.
AgeOf(entries, key, now) ==
    IF entries[key] = None THEN ttl ELSE now - entries[key][1].timestamp

\* One step of caller c's fetch_prices, seen from outside.
FetchPricesStep(c) ==
    LET before == probe.calls[c]
        after == probe'.calls[c]
        key == after.key
    IN  /\ before.pc = "idle" /\ after.pc = "done" =>
              /\ AgeOf(probe.entries, key, probe.now) < ttl
              /\ after.result = Some(Ok(probe.entries[key][1].prices))
              /\ probe'.entries = probe.entries
              /\ probe'.requests = probe.requests
        /\ before.pc = "idle" /\ after.pc = "waiting" =>
              /\ AgeOf(probe.entries, key, probe.now) >= ttl
              /\ probe'.requests[key] = probe.requests[key] + 1
              /\ probe'.entries = probe.entries
        /\ before.pc = "waiting" /\ after.pc = "done" /\ after.result[1].ok =>
              probe'.entries =
                  [probe.entries EXCEPT
                      ![key] = Some(PriceCacheEntry(after.result[1].val, probe.now))]
        /\ before.pc = "waiting" /\ after.pc = "done" /\ ~after.result[1].ok =>
              probe'.entries = probe.entries

\* C28: fetch_prices returns the cached quote only when it was stored less
\* than ttl ago; otherwise it sends a request and stores what the venue
\* answers; a failed fetch leaves every cache entry as it was.
C28_NoStaleQuote == [][\A c \in Callers : FetchPricesStep(c)]_vars

\* An entry has outlived ttl and a caller, refused by the cache, waits for
\* the venue, while the other caller's fetch failed next to an entry.
C28_Witness ==
    /\ probe.kind = "cache"
    /\ probe.entries["p1"] # None
    /\ AgeOf(probe.entries, "p1", probe.now) >= ttl
    /\ probe.calls["cross"].pc = "waiting"
    /\ probe.calls["cross"].key = "p1"
    /\ probe.calls["gabagool"].pc = "done"
    /\ ~probe.calls["gabagool"].result[1].ok

---------------------------------------------------------------------------
(* C29 *)

\* The two scans hold results for one event that are both quotes.
BothQuoted(k) ==
    \A c \in Callers :
        /\ probe.calls[c].pc = "done"
        /\ probe.calls[c].key = k
        /\ probe.calls[c].result[1].ok

\* C29: within one scan cycle at most one price request goes to the venue
\* for any event id, and when both scans hold a quote of one event it is
\* the same quote.
C29_OneRequestPerEvent ==
    probe.kind = "cache" =>
        \A k \in CacheKeys :
            /\ probe.requests[k] <= 1
            /\ BothQuoted(k) =>
                  probe.calls["cross"].result = probe.calls["gabagool"].result

---------------------------------------------------------------------------
(* C30 *)

\* C30: every failure of an event fetch, a price fetch, an order placement
\* and a settlement check has a record in the log.
C30_EveryFailureLogged ==
    probe.kind = "log" =>
        \A about \in probe.failed : \E record \in probe.log : record.about = about

---------------------------------------------------------------------------
(* C31 *)

\* C31: an event passes the filter only if its category is on the
\* allow-list, or it has no category and its title or description holds a
\* keyword of an allowed category; keywords are not looked at for an event
\* that has a category.
C31_KeywordsOnlyWithoutCategory ==
    probe.kind = "filter_done" =>
        \A e \in Range(probe.filtered) :
            \/ probe.attr[e].category = Some("crypto")
            \/ probe.attr[e].category = None /\ probe.attr[e].hit

---------------------------------------------------------------------------
(* C32 *)

\* The ids of a listing are those it has to hold, in the order of insertion.
ListedInOrder ==
    LET wanted == SelectSeq(probe.added, LAMBDA id :
                      CASE probe.call = "all" -> TRUE
                        [] probe.call = "open" -> positions[id].status = "Open"
                        [] OTHER -> positions[id].platform = probe.call)
    IN  probe.listed = wanted

\* C32: list-all, list-open and list-by-venue return the positions in the
\* order in which they were added, after any adds and settlements.
C32_ListedByInsertion ==
    (probe.kind = "listing" /\ probe.call # "none") => ListedInOrder

---------------------------------------------------------------------------
(* C33 *)

\* (1 - pair cost) x min(yes_qty, no_qty) in cents for a hedged position
\* whose pair cost is below 1, and nothing otherwise.
ClaimedLocked(pos) ==
    LET pairs == Min(pos.yes_qty, pos.no_qty)
    IN  IF pairs > 0 /\ pos.yes_cost + pos.no_cost < 100 * pairs
        THEN 100 * pairs - (pos.yes_cost + pos.no_cost)
        ELSE 0

\* C33: a hedge position with min(yes_qty, no_qty) > 0 and pair cost below
\* 1 is reported with locked profit (1 - pair cost) x min(yes_qty, no_qty),
\* in the statistics and in the log of execute_trade; a position with an
\* unhedged side or a pair cost of 1 or more contributes none.
C33_LockedProfit ==
    probe.kind = "stats_done" =>
        /\ probe.stats.locked_profit =
              ClaimedLocked(probe.gpos["p1"]) + ClaimedLocked(probe.gpos["p4"])
        /\ \A e \in StatEvents :
              probe.logged[e] = IF ClaimedLocked(probe.gpos[e]) > 0
                                THEN Some(ClaimedLocked(probe.gpos[e])) ELSE None

\* yes_cost + no_cost = 0.90 at quantity 1 each gives 0.10, next to a
\* position whose pair cost is exactly 1.
C33_Witness ==
    /\ probe.kind = "stats_done"
    /\ probe.gpos["p1"] = GabagoolPosition(1, 40, 1, 50)
    /\ probe.gpos["p4"] = GabagoolPosition(1, 50, 4, 50)
    /\ probe.stats.locked_profit = 10
    /\ probe.logged["p1"] = Some(10)
    /\ probe.logged["p4"] = None

---------------------------------------------------------------------------
(* C34 *)

\* A position that is Won or Lost keeps its status, profit and settlement
\* time; no position goes back to Open.
SettledStays ==
    \A id \in DOMAIN positions :
        positions[id].status # "Open" =>
            /\ positions'[id].status = positions[id].status
            /\ positions'[id].profit = positions[id].profit
            /\ positions'[id].settled_at = positions[id].settled_at

\* C34: a position's status only moves from Open to Won or from Open to
\* Lost: Settled is never assigned, no position returns to Open, and a
\* later update_position_settlement of a Won or Lost position, whatever its
\* won flag, changes neither status nor profit nor settlement time.
C34_StatusMovesOnce ==
    /\ [](\A id \in DOMAIN positions : positions[id].status \in {"Open", "Won", "Lost"})
    /\ [][SettledStays]_vars

---------------------------------------------------------------------------
(* C36 *)

\* A call of place_order has returned Ok.
PlaceOrderReturnedOk ==
    /\ probe.kind = "place_order"
    /\ probe.pc = "done"
    /\ probe.result[1].ok

\* No call of place_order ever returns Ok, whatever the key and the order.
PlaceOrderNeverOk == ~PlaceOrderReturnedOk

\* C36: with a wallet key configured, a call of place_order can return
\* successfully: as the executors keep placing orders, one of the calls
\* returns Ok.
C36_PlaceOrderCanSucceed ==
    (probe.wallet_private_key = Some("0xkey") /\ probe.rpc_ok) ~> PlaceOrderReturnedOk

---------------------------------------------------------------------------
(* C37 *)

\* C37: with the Polymarket signing key absent, execute_arbitrage places
\* no order on Kalshi: no Kalshi leg of any trade holds an accepted order.
C37_NoKalshiOrderWithoutWallet ==
    \A i \in DOMAIN trades :
        ~(trades[i].kalshi.st = "done" /\ trades[i].kalshi.po.ok)

---------------------------------------------------------------------------
(* C38 *)

\* C38: every Position of the ledger has cost = quantity x execution price
\* (prices are in cents, so both sides are taken in cents).
C38_CostIsQuantityTimesPrice ==
    \A id \in DOMAIN positions :
        positions[id].cost * 100 = positions[id].amount * positions[id].price

---------------------------------------------------------------------------
(* C39 *)

\* The step in which execute_trade j returns the error of place_order.
ReturnsError(j) ==
    /\ j \in DOMAIN gtrades /\ j \in DOMAIN gtrades'
    /\ gtrades[j] = "inflight"
    /\ gtrades'[j] = "err"

\* C39: when place_order fails, execute_trade returns the error and leaves
\* the hedge map, entry or no entry for the event, and the ledger exactly
\* as they were before the call.
C39_FailedOrderChangesNothing ==
    [][\A j \in DOMAIN gtrades :
          ReturnsError(j) =>
              /\ gabagool_positions' = gabagool_positions
              /\ DOMAIN gabagool_positions' = DOMAIN gabagool_positions
              /\ positions' = positions
              /\ numAdded' = numAdded]_vars

\* A trade has failed for an event that has no hedge position, and still
\* has none, after an earlier cycle bought.
C39_Witness ==
    /\ cycles > 1
    /\ numAdded > 0
    /\ \E j \in DOMAIN gtrades :
          /\ gtrades[j] = "err"
          /\ gabagool_opps[j].event \notin DOMAIN gabagool_positions

---------------------------------------------------------------------------
(* C40 *)

HeldBy(t) == { l \in Locks : probe.holder[l] = Some(t) }

\* No task holds one lock while it holds or asks for the other.
NoNestedLocks ==
    \A t \in LockTasks :
        /\ Cardinality(HeldBy(t)) <= 1
        /\ probe.waiting[t] => HeldBy(t) = {}

\* C40: no task takes the ledger lock while it holds the hedge lock, or the
\* reverse, and under any interleaving of trade executions, balance reads
\* and a settlement pass every lock request is granted in the end.
C40_NoDeadlock ==
    /\ []NoNestedLocks
    /\ \A t \in LockTasks : probe.waiting[t] ~> ~probe.waiting[t]

\* Both Gabagool trades and the balance read wait for the hedge map while
\* the settlement pass holds the ledger and the cross-venue trade waits for it.
C40_Witness ==
    /\ probe.kind = "locks"
    /\ probe.holder["ledger"] = Some("settlement")
    /\ probe.waiting["cross"]
    /\ probe.holder["hedge"] = Some("gabagool_a")
    /\ probe.waiting["gabagool_b"]
    /\ probe.waiting["balance"]

====
